---- MODULE Spec2Model ----
(***************************************************************************)
(* Order / coupon / download pipeline of the digital shop backend.         *)
(*                                                                         *)
(* The relational store is modelled as one function per table, from the   *)
(* row id to the row; the ids come from the serial of the table, which     *)
(* keeps counting when an insert is refused.  Every handler is a process:  *)
(* each `await db...` is one atomic step, together with the synchronous    *)
(* code that runs when its result arrives, so concurrent requests          *)
(* interleave exactly at the store accesses.  The handlers that only read, *)
(* and those of the reviews, the blog, the contact form and the settings,  *)
(* whose tables no handler of the pipeline reads, are left out.            *)
(*                                                                         *)
(* Money: numeric(_,2) columns hold whole hundredths.  JavaScript numbers  *)
(* are IEEE 754 doubles, computed bit for bit; DblToNumeric2 is what such  *)
(* a column keeps of a number written to it with toString().               *)
(*                                                                         *)
(* Time: instants are whole minutes.  Date.setDate and Date.setMinutes     *)
(* work on the fields of local time, so they depend on the time zone of    *)
(* the process.                                                            *)
(***************************************************************************)
EXTENDS Integers, Sequences, FiniteSets, TLC

\* ------------------------------------------------------------------ bounds
NumProcs == 2          \* concurrent requests in flight
MaxOrders == 2         \* order rows
MaxTargetId == 1       \* orders that updates and createDownload are called on
MaxDownloads == 2      \* rows createDownload may add up to
MaxDownloadId == 2     \* grants incrementDownloadCount is called on
MaxIncrements == 3     \* successful incrementDownloadCount calls per grant
MaxTime == 3           \* the clock of the checkout stops here
DlLimit == 2           \* download_limit of the limited digital product
MaxTokens == 2         \* tokens generateDownloadToken may issue up to
MaxCartQuantity == 4   \* the quantity addToCart calls may add to one user and product
CouponExpiry == 1      \* expires_at of a seeded coupon that carries one
MaxCoupons == 3        \* ids createCoupon may take from the serial of coupons
MaxCartIds == 3        \* ids addToCart may take from the serial of cart_items
MaxUsers == 3          \* ids createUser may take from the serial of users
MaxCategories == 2     \* ids createCategory may take from the serial of categories
MaxProducts == 4       \* product rows createProduct may add up to
MaxUses == 3           \* store writes stop failing once a coupon counts this many uses
ZoneChange == 10       \* the instant at which a zone with a clock change changes
ZoneShift == 60        \* by how many minutes its clocks move then

\* program constants
GrantDays == 30        \* createDownload / createDownloadRecords: +30 days
TokenMinutes == 15     \* generateDownloadToken: +15 minutes
\* the time unit is one minute
MinutesPerDay == 24 * 60

Procs == 1..NumProcs

\* ------------------------------------------------------- nullable values
None == << >>
Some(v) == << v >>
IsNull(x) == x = None
Val(x) == x[1]
\* JavaScript truthiness of a nullable number (null and 0 are falsy)
Truthy(x) == x # None /\ Val(x) # 0

\* ------------------------------------------- natural numbers of any size
\* little-endian sequences of limbs below Base, no leading zero limb; a limb
\* times a limb plus a carry stays within the integers of the checker
Base == 2 ^ 15
RECURSIVE IntBitLen(_)
IntBitLen(n) == IF n = 0 THEN 0 ELSE 1 + IntBitLen(n \div 2)
LimbBits == IntBitLen(Base - 1)
RECURSIVE BigNorm(_)
BigNorm(a) == IF a # << >> /\ a[Len(a)] = 0 THEN BigNorm(SubSeq(a, 1, Len(a) - 1)) ELSE a
RECURSIVE BigOfInt(_)
BigOfInt(n) == IF n = 0 THEN << >> ELSE << n % Base >> \o BigOfInt(n \div Base)
RECURSIVE BigToInt(_)
BigToInt(a) == IF a = << >> THEN 0 ELSE a[1] + Base * BigToInt(Tail(a))
Limb(a, i) == IF i <= Len(a) THEN a[i] ELSE 0
RECURSIVE BigCmpFrom(_, _, _)
BigCmpFrom(a, b, i) ==
  IF i = 0 THEN 0
  ELSE IF a[i] < b[i] THEN -1
  ELSE IF a[i] > b[i] THEN 1
  ELSE BigCmpFrom(a, b, i - 1)
\* -1, 0, 1 as a < b, a = b, a > b
BigCmp(a, b) ==
  IF Len(a) < Len(b) THEN -1
  ELSE IF Len(a) > Len(b) THEN 1
  ELSE BigCmpFrom(a, b, Len(a))
RECURSIVE BigAddFrom(_, _, _, _)
BigAddFrom(a, b, i, carry) ==
  IF i > Len(a) /\ i > Len(b)
    THEN (IF carry = 0 THEN << >> ELSE << carry >>)
    ELSE LET s == Limb(a, i) + Limb(b, i) + carry IN
         << s % Base >> \o BigAddFrom(a, b, i + 1, s \div Base)
BigAdd(a, b) == BigAddFrom(a, b, 1, 0)
RECURSIVE BigSubFrom(_, _, _, _)
BigSubFrom(a, b, i, borrow) ==
  IF i > Len(a) THEN << >>
  ELSE LET s == a[i] - Limb(b, i) - borrow IN
       << (s + Base) % Base >> \o BigSubFrom(a, b, i + 1, IF s < 0 THEN 1 ELSE 0)
\* a - b for a >= b
BigSub(a, b) == BigNorm(BigSubFrom(a, b, 1, 0))
RECURSIVE BigMulSmallFrom(_, _, _, _)
BigMulSmallFrom(a, d, i, carry) ==
  IF i > Len(a) THEN (IF carry = 0 THEN << >> ELSE << carry >>)
  ELSE LET s == a[i] * d + carry IN
       << s % Base >> \o BigMulSmallFrom(a, d, i + 1, s \div Base)
\* a * d for 0 <= d <= Base
BigMulSmall(a, d) == IF d = 0 THEN << >> ELSE BigMulSmallFrom(a, d, 1, 0)
RECURSIVE BigMulFrom(_, _, _)
BigMulFrom(a, b, j) ==
  IF j > Len(b) THEN << >>
  ELSE BigAdd(BigMulSmall(a, b[j]), << 0 >> \o BigMulFrom(a, b, j + 1))
BigMul(a, b) == BigNorm(BigMulFrom(a, b, 1))
RECURSIVE BigDivSmallFrom(_, _, _, _)
\* long division from the top limb down: the quotient's limbs, top first, then
\* the remainder
BigDivSmallFrom(a, d, i, r) ==
  IF i = 0 THEN [q |-> << >>, r |-> r]
  ELSE LET s == r * Base + a[i]
           rest == BigDivSmallFrom(a, d, i - 1, s % d)
       IN  [q |-> Append(rest.q, s \div d), r |-> rest.r]
\* a div d and a mod d for 0 < d <= Base
BigDivSmall(a, d) ==
  LET qr == BigDivSmallFrom(a, d, Len(a), 0) IN [q |-> BigNorm(qr.q), r |-> qr.r]
RECURSIVE Pow2(_)
Pow2(k) == IF k = 0 THEN 1 ELSE 2 * Pow2(k - 1)
RECURSIVE Zeros(_)
Zeros(n) == IF n = 0 THEN << >> ELSE << 0 >> \o Zeros(n - 1)
\* a * 2^k
BigShiftLeft(a, k) ==
  IF a = << >> THEN << >>
  ELSE Zeros(k \div LimbBits) \o BigMulSmall(a, Pow2(k % LimbBits))
\* a div 2^k
BigShiftRight(a, k) ==
  IF k \div LimbBits >= Len(a) THEN << >>
  ELSE BigDivSmall(SubSeq(a, k \div LimbBits + 1, Len(a)), Pow2(k % LimbBits)).q
\* a mod 2^k # 0
BigLowBits(a, k) ==
  \/ \E i \in 1..Len(a) : i <= k \div LimbBits /\ a[i] # 0
  \/ /\ k \div LimbBits < Len(a)
     /\ a[k \div LimbBits + 1] % Pow2(k % LimbBits) # 0
\* bit i of a, the lowest being bit 0
BigBit(a, i) ==
  IF i \div LimbBits >= Len(a) THEN 0
  ELSE (a[i \div LimbBits + 1] \div Pow2(i % LimbBits)) % 2
BigBitLen(a) == IF a = << >> THEN 0 ELSE LimbBits * (Len(a) - 1) + IntBitLen(a[Len(a)])

\* ------------------------------------------------- IEEE 754 binary64
\* a finite double is (-1)^neg * mant * 2^exp with mant of exactly 53 bits, or
\* zero (mant empty).  Overflow, subnormals, NaN and -0 do not arise from the
\* amounts of a shop and are left out.
MantBits == 53
DblZero == [neg |-> FALSE, mant |-> << >>, exp |-> 0]
\* n * 2^e, plus a fraction of its last place when sticky, rounded to nearest,
\* ties to even; with sticky n has more than 54 bits
DblRound(neg, n, e, sticky) ==
  LET len == BigBitLen(n) IN
  IF n = << >> THEN DblZero
  ELSE IF len <= MantBits
    THEN [neg |-> neg, mant |-> BigShiftLeft(n, MantBits - len), exp |-> e - (MantBits - len)]
  ELSE LET s == len - MantBits
           q == BigShiftRight(n, s)
           up == /\ BigBit(n, s - 1) = 1
                 /\ (sticky \/ BigLowBits(n, s - 1) \/ BigBit(q, 0) = 1)
           r == IF up THEN BigAdd(q, << 1 >>) ELSE q
       IN  IF BigBitLen(r) > MantBits
             THEN [neg |-> neg, mant |-> BigShiftRight(r, 1), exp |-> e + s + 1]
             ELSE [neg |-> neg, mant |-> r, exp |-> e + s]
\* the double nearest to (-1)^neg * n * 2^e / d, 0 < d <= Base
DblOfRatio(neg, n, d, e) ==
  LET t == IF BigBitLen(n) >= 72 THEN 0 ELSE 72 - BigBitLen(n)
      qr == BigDivSmall(BigShiftLeft(n, t), d)
  IN  DblRound(neg, qr.q, e - t, qr.r # 0)
Abs(n) == IF n < 0 THEN 0 - n ELSE n
DblOfInt(n) == DblRound(n < 0, BigOfInt(Abs(n)), 0, FALSE)
\* the double nearest to c / 100: the JavaScript number with that decimal
\* literal, and parseFloat of a numeric(_, 2) column holding c hundredths
DblOfCents(c) == DblOfRatio(c < 0, BigOfInt(Abs(c)), 100, 0)
DblNeg(x) == IF x.mant = << >> THEN x ELSE [x EXCEPT !.neg = ~@]
DblMul(x, y) == DblRound(x.neg # y.neg, BigMul(x.mant, y.mant), x.exp + y.exp, FALSE)
\* x / d for a whole d, 0 < d <= Base
DblDivInt(x, d) == DblOfRatio(x.neg, x.mant, d, x.exp)
MinOf(a, b) == IF a < b THEN a ELSE b
\* the magnitudes of x and y on their common exponent
DblAligned(x, y) ==
  LET e == IF x.mant = << >> THEN y.exp ELSE IF y.mant = << >> THEN x.exp
           ELSE MinOf(x.exp, y.exp) IN
  [ e |-> e,
    a |-> IF x.mant = << >> THEN << >> ELSE BigShiftLeft(x.mant, x.exp - e),
    b |-> IF y.mant = << >> THEN << >> ELSE BigShiftLeft(y.mant, y.exp - e) ]
DblAdd(x, y) ==
  LET al == DblAligned(x, y) IN
  IF x.neg = y.neg THEN DblRound(x.neg, BigAdd(al.a, al.b), al.e, FALSE)
  ELSE IF BigCmp(al.a, al.b) >= 0 THEN DblRound(x.neg, BigSub(al.a, al.b), al.e, FALSE)
  ELSE DblRound(y.neg, BigSub(al.b, al.a), al.e, FALSE)
DblSub(x, y) == DblAdd(x, DblNeg(y))
\* x < y
DblLess(x, y) ==
  LET al == DblAligned(x, y)
      c == BigCmp(al.a, al.b)
  IN  IF x.neg /\ ~y.neg THEN TRUE
      ELSE IF ~x.neg /\ y.neg THEN FALSE
      ELSE IF x.neg THEN c > 0 ELSE c < 0
DblMin(x, y) == IF DblLess(y, x) THEN y ELSE x
\* Math.round: the nearest whole number, halves towards +infinity
MathRound(x) ==
  IF x.mant = << >> \/ x.exp >= 0 THEN x
  ELSE LET s == 0 - x.exp
           whole == BigShiftRight(x.mant, s)
           half == BigBit(x.mant, s - 1) = 1
           rest == BigLowBits(x.mant, s - 1)
       IN  IF ~x.neg
             THEN DblRound(FALSE, IF half THEN BigAdd(whole, << 1 >>) ELSE whole, 0, FALSE)
             ELSE DblRound(TRUE, IF half /\ rest THEN BigAdd(whole, << 1 >>) ELSE whole,
                           0, FALSE)
\* floor(|x| * n) for a whole n, 0 <= n <= Base
DblFloorTimes(x, n) ==
  LET p == BigMulSmall(x.mant, n) IN
  IF x.exp >= 0 THEN BigShiftLeft(p, x.exp) ELSE BigShiftRight(p, 0 - x.exp)
\* what a numeric(_, 2) column keeps of x.toString(), in hundredths.  The
\* shortest decimal that reads back as x has at most three decimals exactly
\* when some k / 1000 reads back as x; the store rounds that decimal half away
\* from zero.  Otherwise the decimal lies on the same side of every half
\* hundredth as x does, and x is rounded itself.
DblToNumeric2(x) ==
  LET mag == [x EXCEPT !.neg = FALSE]
      k0 == DblFloorTimes(x, 1000)
      k1 == BigAdd(k0, << 1 >>)
      short == IF DblOfRatio(FALSE, k0, 1000, 0) = mag THEN << k0 >>
               ELSE IF DblOfRatio(FALSE, k1, 1000, 0) = mag THEN << k1 >>
               ELSE << >>
      hundredths ==
        IF short # << >>
          THEN BigDivSmall(BigAdd(short[1], << 5 >>), 10).q
          ELSE BigShiftRight(BigAdd(DblFloorTimes(x, 200), << 1 >>), 1)
  IN  IF x.neg THEN 0 - BigToInt(hundredths) ELSE BigToInt(hundredths)

\* ------------------------------------------------------------ catalogue
\* the users, categories and products a shop starts with; of a user the
\* handlers read the id and the unique email, of a category the id and the
\* unique slug, of a product the id and the two download columns:
\* product 1 is physical, 2 digital with a limit, 3 digital unlimited
UserSeeds == << [email |-> "a@x.org"], [email |-> "b@x.org"] >>
CategorySeeds == << [slug |-> "c1"] >>
ProductSeeds ==
  << [digital_file_url |-> None, download_limit |-> None],
     [digital_file_url |-> Some("https://cdn/2"), download_limit |-> Some(DlLimit)],
     [digital_file_url |-> Some("https://cdn/3"), download_limit |-> None] >>

Item(p, q, c) == [product_id |-> p, quantity |-> q, price |-> c]
\* line-item lists a checkout may submit; price c is the number c / 100;
\* product 4 exists once createProduct has added it
ItemLists ==
  { << Item(3, 1, 3015) >>,
    << Item(1, 1, 1005), Item(2, 1, 2000) >>,
    << Item(2, 3, 15), Item(2, 1, 500) >>,
    << Item(4, 1, 1000) >> }
OrderUsers == {1, 3}
CouponCodes == {"SAVE", "NOPE"}

\* the callers, products and quantities of addToCart: user 3 exists once
\* createUser has added them
CartUsers == {1, 3}
CartProducts == {1, 2}
CartQuantities == {1, 2}
CartPairs == CartUsers \X CartProducts

\* a time zone: its clocks move by `by` minutes at instant `at` (by 0: never)
Utc == [at |-> 0, by |-> 0]
Zones == { Utc, [at |-> ZoneChange, by |-> ZoneShift],
           [at |-> ZoneChange, by |-> 0 - ZoneShift] }

VARIABLES coupons, orders, orderItems, downloads, okIncrements, tokenStore,
          tokenIssued, cartItems, cartAdded, products, users, categories,
          serial, zone, now, pc, call, loc, last

vars == << coupons, orders, orderItems, downloads, okIncrements, tokenStore,
           tokenIssued, cartItems, cartAdded, products, users, categories,
           serial, zone, now, pc, call, loc, last >>
\* the tables, and the token map the downloads handler keeps in memory;
\* okIncrements, tokenIssued and cartAdded record what has happened (the
\* increments that succeeded per grant; when and for what each token was
\* issued and whether it has been accepted; the quantity added per cart pair)
\* and are read by no handler; serial holds, per table with an insert that
\* can be refused, the last id its serial has given
store == << coupons, orders, orderItems, downloads, okIncrements, tokenStore,
            tokenIssued, cartItems, cartAdded, products, users, categories,
            serial >>

\* insert ... returning: the row takes the next id of the serial
NextId(table) == serial[table] + 1
Inserted(rows, id, row) ==
  [ i \in DOMAIN rows \cup {id} |-> IF i = id THEN row ELSE rows[i] ]
\* delete: the rows but those of ids
Deleted(rows, ids) == [ i \in DOMAIN rows \ ids |-> rows[i] ]
\* the serial of the table has given one more id, to a row or to an insert
\* that was refused
Taken(table) == [serial EXCEPT ![table] = @ + 1]

\* the digital_file_url and download_limit columns of a product row
digital_file_url(p) == products[p].digital_file_url
download_limit(p) == products[p].download_limit

\* ------------------------------------------------------------ local time
\* minutes the local clock is ahead of where it was before the zone's change
Offset(t) == IF t >= zone.at THEN zone.by ELSE 0
\* LocalTime(t) of ECMAScript: the local clock reading at instant t
LocalTime(t) == t + Offset(t)
\* UTC(l) of ECMAScript: the instant at which the local clock reads l; the
\* earlier one when the clock reads l twice, and read with the offset before
\* the change when the clock skips l
UTC(l) ==
  IF l < zone.at THEN l
  ELSE IF l - zone.by >= zone.at THEN l - zone.by
  ELSE l
\* d.setMinutes(d.getMinutes() + n) on the date d of instant t
AddMinutes(t, n) == UTC(LocalTime(t) + n)
\* d.setDate(d.getDate() + n): the same local clock reading n days on
AddDays(t, n) == UTC(LocalTime(t) + n * MinutesPerDay)

\* ------------------------------------------------ createOrder arithmetic
\* line 30: totalAmount += item.price * item.quantity
AddLine(totalAmount, item) ==
  DblAdd(totalAmount, DblMul(DblOfCents(item.price), DblOfInt(item.quantity)))
RECURSIVE SumItems(_)
\* lines 19-31: totalAmount after the loop over the items
SumItems(items) ==
  IF items = << >> THEN DblZero
  ELSE AddLine(SumItems(SubSeq(items, 1, Len(items) - 1)), items[Len(items)])
\* line 107: what the price column keeps of item.price.toString()
PriceColumn(price) == DblToNumeric2(DblOfCents(price))

\* ----------------------------------------------------------------- seeds
\* coupon rows as createCoupon / updateCoupon / deleteCoupon leave them;
\* discount_percentage is a numeric(5,2), the amounts are numeric(10,2)
Coupon(pct, amt, min, max, exp, act) ==
  [ code |-> "SAVE", discount_percentage |-> pct, discount_amount |-> amt,
    min_order_amount |-> min, max_uses |-> max, current_uses |-> 0,
    expires_at |-> exp, is_active |-> act ]
CouponSeeds ==
  { Coupon(Some(1000), None, Some(2000), Some(1), None, TRUE),
    Coupon(Some(1000), None, None, Some(2), None, TRUE),
    Coupon(None, Some(5000), None, None, Some(CouponExpiry), TRUE),
    Coupon(None, Some(5000), Some(2000), None, None, FALSE) }
\* every combination of the fields the coupon rules read
AllCouponSeeds ==
  { Coupon(d[1], d[2], min, max, exp, act) :
      d \in { << Some(1000), None >>, << None, Some(5000) >> },
      min \in { None, Some(2000) },
      max \in { None, Some(1), Some(2) },
      exp \in { None, Some(CouponExpiry) },
      act \in BOOLEAN }

\* the catalogue as seeded, and the serials after the rows of the state
Catalogue ==
  /\ products = ProductSeeds
  /\ users = UserSeeds
  /\ categories = CategorySeeds
  /\ serial = [ users |-> Len(UserSeeds), categories |-> Len(CategorySeeds),
                coupons |-> Len(coupons), cart_items |-> 0 ]

NoCall == [op |-> "none"]
NoLoc == [i |-> 0]
\* what a handler gave its caller: a value (kind "ok") or the error it threw
Returned(op, id) == [op |-> op, kind |-> "ok", id |-> id]
Threw(op, e) == [op |-> op, kind |-> "error", error |-> e]

\* the tables as they are created: empty, but for the seeded products
Init ==
  /\ coupons = << >>
  /\ orders = << >>
  /\ orderItems = << >>
  /\ downloads = << >>
  /\ okIncrements = << >>
  /\ tokenStore = << >>
  /\ tokenIssued = << >>
  /\ cartItems = << >>
  /\ cartAdded = [c \in CartPairs |-> 0]
  /\ Catalogue
  /\ zone = Utc
  /\ now = 0
  /\ pc = [p \in Procs |-> "idle"]
  /\ call = [p \in Procs |-> NoCall]
  /\ loc = [p \in Procs |-> NoLoc]
  /\ last = [op |-> "none", kind |-> "none"]

\* the same, the process running in any of the zones
InitAnyZone ==
  /\ coupons = << >>
  /\ orders = << >>
  /\ orderItems = << >>
  /\ downloads = << >>
  /\ okIncrements = << >>
  /\ tokenStore = << >>
  /\ tokenIssued = << >>
  /\ cartItems = << >>
  /\ cartAdded = [c \in CartPairs |-> 0]
  /\ Catalogue
  /\ zone \in Zones
  /\ now = 0
  /\ pc = [p \in Procs |-> "idle"]
  /\ call = [p \in Procs |-> NoCall]
  /\ loc = [p \in Procs |-> NoLoc]
  /\ last = [op |-> "none", kind |-> "none"]

\* the store once an admin has set up a coupon
InitSeeded ==
  /\ coupons \in { << c >> : c \in CouponSeeds }
  /\ orders = << >>
  /\ orderItems = << >>
  /\ downloads = << >>
  /\ okIncrements = << >>
  /\ tokenStore = << >>
  /\ tokenIssued = << >>
  /\ cartItems = << >>
  /\ cartAdded = [c \in CartPairs |-> 0]
  /\ Catalogue
  /\ zone = Utc
  /\ now = 0
  /\ pc = [p \in Procs |-> "idle"]
  /\ call = [p \in Procs |-> NoCall]
  /\ loc = [p \in Procs |-> NoLoc]
  /\ last = [op |-> "none", kind |-> "none"]

\* the same, for every combination of the fields the coupon rules read
InitAnyCoupon ==
  /\ coupons \in { << c >> : c \in AllCouponSeeds }
  /\ orders = << >>
  /\ orderItems = << >>
  /\ downloads = << >>
  /\ okIncrements = << >>
  /\ tokenStore = << >>
  /\ tokenIssued = << >>
  /\ cartItems = << >>
  /\ cartAdded = [c \in CartPairs |-> 0]
  /\ Catalogue
  /\ zone = Utc
  /\ now = 0
  /\ pc = [p \in Procs |-> "idle"]
  /\ call = [p \in Procs |-> NoCall]
  /\ loc = [p \in Procs |-> NoLoc]
  /\ last = [op |-> "none", kind |-> "none"]

\* the store once user 1 has checked out the unlimited digital product without
\* a coupon: the rows createOrder leaves; the process runs in any of the zones
InitOrdered ==
  LET items == << Item(3, 1, 3015) >> IN
  /\ coupons = << >>
  /\ orders = << [ user_id |-> 1, total_amount |-> DblToNumeric2(SumItems(items)),
                   discount_amount |-> DblToNumeric2(DblZero),
                   final_amount |-> DblToNumeric2(DblSub(SumItems(items), DblZero)),
                   coupon_id |-> None, status |-> "pending",
                   payment_status |-> "pending", updated_at |-> 0 ] >>
  /\ orderItems = << [ order_id |-> 1, product_id |-> 3, quantity |-> 1,
                       price |-> PriceColumn(3015) ] >>
  /\ downloads = << >>
  /\ okIncrements = << >>
  /\ tokenStore = << >>
  /\ tokenIssued = << >>
  /\ cartItems = << >>
  /\ cartAdded = [c \in CartPairs |-> 0]
  /\ Catalogue
  /\ zone \in Zones
  /\ now = 0
  /\ pc = [p \in Procs |-> "idle"]
  /\ call = [p \in Procs |-> NoCall]
  /\ loc = [p \in Procs |-> NoLoc]
  /\ last = [op |-> "none", kind |-> "none"]

\* the store once user 1 has, on top of that, been granted the limited product
\* by createDownload at instant 0: the row lines 36-47 of downloads.ts leave
InitGranted ==
  LET items == << Item(3, 1, 3015) >> IN
  /\ zone \in Zones
  /\ now = 0
  /\ coupons = << >>
  /\ orders = << [ user_id |-> 1, total_amount |-> DblToNumeric2(SumItems(items)),
                   discount_amount |-> DblToNumeric2(DblZero),
                   final_amount |-> DblToNumeric2(DblSub(SumItems(items), DblZero)),
                   coupon_id |-> None, status |-> "pending",
                   payment_status |-> "pending", updated_at |-> 0 ] >>
  /\ orderItems = << [ order_id |-> 1, product_id |-> 3, quantity |-> 1,
                       price |-> PriceColumn(3015) ] >>
  /\ downloads = << [ user_id |-> 1, product_id |-> 2, order_id |-> 1,
                      download_count |-> 0,
                      expires_at |-> Some(AddDays(0, GrantDays)) ] >>
  /\ okIncrements = << 0 >>
  /\ tokenStore = << >>
  /\ tokenIssued = << >>
  /\ cartItems = << >>
  /\ cartAdded = [c \in CartPairs |-> 0]
  /\ Catalogue
  /\ pc = [p \in Procs |-> "idle"]
  /\ call = [p \in Procs |-> NoCall]
  /\ loc = [p \in Procs |-> NoLoc]
  /\ last = [op |-> "none", kind |-> "none"]

\* the same, the process running in UTC
InitOrderedUtc == InitOrdered /\ zone = Utc

Free(p) == pc[p] = "idle"

\* the handler of p ends: r is what it returns or throws, the latest response
Finish(p, r) ==
  /\ pc' = [pc EXCEPT ![p] = "idle"]
  /\ call' = [call EXCEPT ![p] = NoCall]
  /\ loc' = [loc EXCEPT ![p] = NoLoc]
  /\ last' = r

\* the handler of p, called with c, goes on to the step at label
Start(p, c, label, l) ==
  /\ pc' = [pc EXCEPT ![p] = label]
  /\ call' = [call EXCEPT ![p] = c]
  /\ loc' = [loc EXCEPT ![p] = l]
  /\ UNCHANGED last

Goto(p, label, l) ==
  /\ pc' = [pc EXCEPT ![p] = label]
  /\ loc' = [loc EXCEPT ![p] = l]
  /\ UNCHANGED << call, last >>

\* ------------------------------------------------------------ createOrder
\* db.select().from(couponsTable).where(code = coupon_code AND is_active): row ids
ActiveCouponIds(code) ==
  { i \in DOMAIN coupons : coupons[i].code = code /\ coupons[i].is_active }

\* line 60: totalAmount < parseFloat(coupon.min_order_amount)
BelowMinimum(coupon, totalAmount) ==
  /\ coupon.min_order_amount # None
  /\ DblLess(totalAmount, DblOfCents(Val(coupon.min_order_amount)))

\* CouponRejection with the usage check off by one (> for >=)
CouponRejectionOffByOne(coupon, totalAmount) ==
  IF coupon.expires_at # None /\ now > Val(coupon.expires_at) THEN "Coupon has expired"
  ELSE IF Truthy(coupon.max_uses) /\ coupon.current_uses > Val(coupon.max_uses)
    THEN "Coupon usage limit exceeded"
  ELSE IF BelowMinimum(coupon, totalAmount) THEN "Minimum order amount required"
  ELSE ""

\* lines 49-62: the three checks createOrder makes on the coupon row, in
\* order; "" when all pass
CouponRejection(coupon, totalAmount) ==
  IF coupon.expires_at # None /\ now > Val(coupon.expires_at) THEN "Coupon has expired"
  ELSE IF Truthy(coupon.max_uses) /\ coupon.current_uses >= Val(coupon.max_uses)
    THEN "Coupon usage limit exceeded"
  ELSE IF BelowMinimum(coupon, totalAmount) THEN "Minimum order amount required"
  ELSE ""

\* lines 66-70: discountAmount; the columns are strings, truthy when not null
OrderDiscount(coupon, totalAmount) ==
  IF coupon.discount_percentage # None
    THEN DblDivInt(
           MathRound(
             DblMul(DblMul(totalAmount,
                           DblDivInt(DblOfCents(Val(coupon.discount_percentage)), 100)),
                    DblOfInt(1000))),
           1000)
  ELSE IF coupon.discount_amount # None
    THEN DblOfCents(Val(coupon.discount_amount))
  ELSE DblZero

\* order rows that exist or that a request past its user check may insert
OrdersCommitted ==
  Len(orders)
    + Cardinality({ q \in Procs :
                      pc[q] \in {"co_product", "co_coupon", "co_update", "co_order"} })
\* a request that inserts no order row: its coupon is used up
UsedUp(coupon_code) ==
  \E id \in ActiveCouponIds(coupon_code) :
    /\ \A j \in ActiveCouponIds(coupon_code) : id <= j
    /\ Truthy(coupons[id].max_uses)
    /\ coupons[id].current_uses >= Val(coupons[id].max_uses)

\* lines 19, 34, 35: the variables of createOrder as they are declared
OrderLocals ==
  [ i |-> 1, totalAmount |-> DblZero, couponId |-> None, discountAmount |-> DblZero,
    current_uses |-> 0 ]

\* where createOrder, called with c, goes once it has looked up i of its items
AfterItem(c, i) ==
  IF i < Len(c.items) THEN "co_product"
  ELSE IF c.coupon_code # "" THEN "co_coupon"
  ELSE "co_order"

\* lines 9-16: look up the user
CreateOrderSelectUser(p, user_id, items, coupon_code) ==
  LET c == [op |-> "createOrder", user_id |-> user_id, items |-> items,
            coupon_code |-> coupon_code] IN
  /\ Free(p)
  /\ IF user_id \notin DOMAIN users
       THEN Finish(p, Threw("createOrder", "User not found"))
       ELSE /\ OrdersCommitted < MaxOrders \/ UsedUp(coupon_code)
            /\ Start(p, c, AfterItem(c, 0), OrderLocals)
  /\ UNCHANGED << store, zone, now >>

\* lines 20-31: look up the product of the next item and add its line
CreateOrderSelectProduct(p) ==
  LET item == call[p].items[loc[p].i] IN
  /\ pc[p] = "co_product"
  /\ IF item.product_id \notin DOMAIN products
       THEN Finish(p, Threw("createOrder", "Product not found"))
       ELSE Goto(p, AfterItem(call[p], loc[p].i),
                 [loc[p] EXCEPT !.totalAmount = AddLine(@, item), !.i = @ + 1])
  /\ UNCHANGED << store, zone, now >>

\* lines 37-71: look up the coupon, check it and work out the discount; a code
\* that names no active coupon is passed over
CreateOrderSelectCoupon(p) ==
  LET ids == ActiveCouponIds(call[p].coupon_code) IN
  /\ pc[p] = "co_coupon"
  /\ IF ids = {}
       THEN Goto(p, "co_order", loc[p])
       ELSE LET id == CHOOSE i \in ids : \A j \in ids : i <= j
                coupon == coupons[id]
            IN  IF CouponRejection(coupon, loc[p].totalAmount) # ""
                  THEN Finish(p, Threw("createOrder",
                                       CouponRejection(coupon, loc[p].totalAmount)))
                  ELSE Goto(p, "co_update",
                            [loc[p] EXCEPT !.couponId = Some(id),
                                           !.discountAmount =
                                              OrderDiscount(coupon, loc[p].totalAmount),
                                           !.current_uses = coupon.current_uses])
  /\ UNCHANGED << store, zone, now >>

\* lines 74-77: set current_uses to the value read plus one
CreateOrderUpdateCoupon(p) ==
  /\ pc[p] = "co_update"
  /\ coupons' = [coupons EXCEPT ![Val(loc[p].couponId)].current_uses =
                   loc[p].current_uses + 1]
  /\ Goto(p, "co_order", loc[p])
  /\ UNCHANGED << orders, orderItems, downloads, okIncrements, tokenStore, tokenIssued, cartItems, cartAdded, products, users, categories, serial, zone, now >>

\* the order row of lines 81-95: the three numbers go in as their toString()
OrderRow(user_id, plan) ==
  [ user_id |-> user_id,
    total_amount |-> DblToNumeric2(plan.totalAmount),
    discount_amount |-> DblToNumeric2(plan.discountAmount),
    final_amount |-> DblToNumeric2(DblSub(plan.totalAmount, plan.discountAmount)),
    coupon_id |-> plan.couponId,
    status |-> "pending",
    payment_status |-> "pending",
    updated_at |-> now ]

\* lines 81-97: insert the order row
CreateOrderInsertOrder(p) ==
  /\ pc[p] = "co_order"
  /\ orders' = Append(orders, OrderRow(call[p].user_id, loc[p]))
  /\ IF call[p].items = << >>
       THEN Finish(p, Returned("createOrder", Len(orders) + 1))
       ELSE Goto(p, "co_items", [order_id |-> Len(orders) + 1, i |-> 1])
  /\ UNCHANGED << coupons, orderItems, downloads, okIncrements, tokenStore, tokenIssued, cartItems, cartAdded, products, users, categories, serial, zone, now >>

\* lines 100-116: insert the next line item; return after the last
CreateOrderInsertItem(p) ==
  LET item == call[p].items[loc[p].i] IN
  /\ pc[p] = "co_items"
  /\ orderItems' = Append(orderItems,
       [ order_id |-> loc[p].order_id, product_id |-> item.product_id,
         quantity |-> item.quantity, price |-> PriceColumn(item.price) ])
  /\ IF loc[p].i = Len(call[p].items)
       THEN Finish(p, Returned("createOrder", loc[p].order_id))
       ELSE Goto(p, "co_items", [loc[p] EXCEPT !.i = @ + 1])
  /\ UNCHANGED << coupons, orders, downloads, okIncrements, tokenStore, tokenIssued, cartItems, cartAdded, products, users, categories, serial, zone, now >>

\* the store refuses a write of createOrder (the coupon update of lines 74-77,
\* the order insert of lines 84-95 or an item insert of lines 100-109): the
\* await throws and the catch of lines 117-120 rethrows; nothing is rolled back
CreateOrderWriteFails(p) ==
  /\ pc[p] \in {"co_update", "co_order", "co_items"}
  /\ \A c \in DOMAIN coupons : coupons[c].current_uses < MaxUses
  /\ Finish(p, Threw("createOrder", "store write failed"))
  /\ UNCHANGED << store, zone, now >>

\* ------------------------------------- updateOrderStatus / updatePaymentStatus
OrderStatuses == {"pending", "completed", "cancelled", "refunded"}
PaymentStatuses == {"pending", "completed", "failed"}

\* lines 304-319: the order's items joined with its order and product rows, in
\* table order, keeping the digital ones (those with a digital_file_url)
DigitalItems(orderId) ==
  LET rows == SelectSeq(orderItems,
                LAMBDA it : it.order_id = orderId /\ it.product_id \in DOMAIN products
                            /\ digital_file_url(it.product_id) # None)
  IN  [ k \in DOMAIN rows |->
          [ product_id |-> rows[k].product_id,
            user_id |-> orders[orderId].user_id,
            download_limit |-> download_limit(rows[k].product_id) ] ]

\* ExistingDownloads with the existence check left out
ExistingDownloadsUnchecked(orderId, product_id, user_id) == {}

\* lines 321-328: download rows of the triple
ExistingDownloads(orderId, product_id, user_id) ==
  { d \in DOMAIN downloads : /\ downloads[d].order_id = orderId
                             /\ downloads[d].product_id = product_id
                             /\ downloads[d].user_id = user_id }

\* BothCompleted that forgets the payment status
BothCompletedStatusOnly(order) == order.status = "completed"

\* lines 218 and 258: is the order that the update returned complete and paid
BothCompleted(order) == order.status = "completed" /\ order.payment_status = "completed"

\* the order an update returns: the row as the update left it
Updated(op, id, order) ==
  [ op |-> op, kind |-> "ok", id |-> id, status |-> order.status,
    payment_status |-> order.payment_status ]

\* UpdateOrderStatusSelect that refuses to reopen a cancelled or refunded order
UpdateOrderStatusSelectNoReopen(p, id, status) ==
  /\ Free(p)
  /\ IF id \notin DOMAIN orders
       THEN Finish(p, Threw("updateOrderStatus", "Order not found"))
       ELSE IF orders[id].status \in {"cancelled", "refunded"}
       THEN Finish(p, Threw("updateOrderStatus", "Invalid status transition"))
       ELSE Start(p, [op |-> "updateOrderStatus", id |-> id, status |-> status],
                  "uo_update", [updated_at |-> now])
  /\ UNCHANGED << store, zone, now >>

\* lines 197-209: look the order up; new Date() is taken when the row arrives
UpdateOrderStatusSelect(p, id, status) ==
  /\ Free(p)
  /\ IF id \notin DOMAIN orders
       THEN Finish(p, Threw("updateOrderStatus", "Order not found"))
       ELSE Start(p, [op |-> "updateOrderStatus", id |-> id, status |-> status],
                  "uo_update", [updated_at |-> now])
  /\ UNCHANGED << store, zone, now >>

\* UpdateOrderStatusUpdate that gives the coupon's use back when an order is
\* cancelled or refunded
UpdateOrderStatusUpdateReleasesCoupon(p) ==
  LET id == call[p].id
      order == [orders[id] EXCEPT !.status = call[p].status,
                                  !.updated_at = loc[p].updated_at]
  IN
  /\ pc[p] = "uo_update"
  /\ orders' = [orders EXCEPT ![id] = order]
  /\ IF call[p].status \in {"cancelled", "refunded"} /\ order.coupon_id # None
       THEN coupons' = [coupons EXCEPT ![Val(order.coupon_id)].current_uses = @ - 1]
       ELSE UNCHANGED coupons
  /\ IF BothCompleted(order)
       THEN Goto(p, "dl_select", [orderId |-> id, order |-> order])
       ELSE Finish(p, Updated("updateOrderStatus", id, order))
  /\ UNCHANGED << orderItems, downloads, okIncrements, tokenStore, tokenIssued, cartItems, cartAdded, products, users, categories, serial, zone, now >>

\* lines 206-220: write status and updated_at; the row comes back
UpdateOrderStatusUpdate(p) ==
  LET id == call[p].id
      order == [orders[id] EXCEPT !.status = call[p].status,
                                  !.updated_at = loc[p].updated_at]
  IN
  /\ pc[p] = "uo_update"
  /\ orders' = [orders EXCEPT ![id] = order]
  /\ IF BothCompleted(order)
       THEN Goto(p, "dl_select", [orderId |-> id, order |-> order])
       ELSE Finish(p, Updated("updateOrderStatus", id, order))
  /\ UNCHANGED << coupons, orderItems, downloads, okIncrements, tokenStore, tokenIssued, cartItems, cartAdded, products, users, categories, serial, zone, now >>

\* lines 237-249: look the order up
UpdatePaymentStatusSelect(p, id, paymentStatus) ==
  /\ Free(p)
  /\ IF id \notin DOMAIN orders
       THEN Finish(p, Threw("updatePaymentStatus", "Order not found"))
       ELSE Start(p, [op |-> "updatePaymentStatus", id |-> id,
                      paymentStatus |-> paymentStatus],
                  "up_update", [updated_at |-> now])
  /\ UNCHANGED << store, zone, now >>

\* lines 246-260: write payment_status and updated_at; the row comes back
UpdatePaymentStatusUpdate(p) ==
  LET id == call[p].id
      order == [orders[id] EXCEPT !.payment_status = call[p].paymentStatus,
                                  !.updated_at = loc[p].updated_at]
  IN
  /\ pc[p] = "up_update"
  /\ orders' = [orders EXCEPT ![id] = order]
  /\ IF BothCompleted(order)
       THEN Goto(p, "dl_select", [orderId |-> id, order |-> order])
       ELSE Finish(p, Updated("updatePaymentStatus", id, order))
  /\ UNCHANGED << coupons, orderItems, downloads, okIncrements, tokenStore, tokenIssued, cartItems, cartAdded, products, users, categories, serial, zone, now >>

\* the loop of createDownloadRecords moves to its next item, or the update returns
NextRecord(p, l) ==
  IF l.i = Len(l.items)
    THEN Finish(p, Updated(call[p].op, l.orderId, l.order))
    ELSE Goto(p, "dl_check", [l EXCEPT !.i = @ + 1])

\* createDownloadRecords, lines 304-315: read the order's items
DownloadRecordsSelect(p) ==
  LET items == DigitalItems(loc[p].orderId) IN
  /\ pc[p] = "dl_select"
  /\ IF items = << >>
       THEN Finish(p, Updated(call[p].op, loc[p].orderId, loc[p].order))
       ELSE Goto(p, "dl_check", [orderId |-> loc[p].orderId, order |-> loc[p].order,
                                 items |-> items, i |-> 1, expiresAt |-> None])
  /\ UNCHANGED << store, zone, now >>

\* lines 332-336: expiresAt, 30 days on for a product with a download limit
ProvisionedExpiry(item) ==
  IF Truthy(item.download_limit) THEN Some(AddDays(now, GrantDays)) ELSE None

\* createDownloadRecords, lines 321-336: does the item's grant exist already
DownloadRecordsCheck(p) ==
  LET item == loc[p].items[loc[p].i] IN
  /\ pc[p] = "dl_check"
  /\ IF ExistingDownloads(loc[p].orderId, item.product_id, item.user_id) = {}
       THEN Goto(p, "dl_insert", [loc[p] EXCEPT !.expiresAt = ProvisionedExpiry(item)])
       ELSE NextRecord(p, loc[p])
  /\ UNCHANGED << store, zone, now >>

\* the download row of createDownloadRecords, lines 339-345
ProvisionedRow(orderId, item, expiresAt) ==
  [ user_id |-> item.user_id, product_id |-> item.product_id, order_id |-> orderId,
    download_count |-> 0, expires_at |-> expiresAt ]

\* createDownloadRecords, lines 338-346: insert the grant
DownloadRecordsInsert(p) ==
  /\ pc[p] = "dl_insert"
  /\ downloads' = Append(downloads,
       ProvisionedRow(loc[p].orderId, loc[p].items[loc[p].i], loc[p].expiresAt))
  /\ okIncrements' = Append(okIncrements, 0)
  /\ NextRecord(p, loc[p])
  /\ UNCHANGED << coupons, orders, orderItems, tokenStore, tokenIssued, cartItems, cartAdded, products, users, categories, serial, zone, now >>

\* ProvisioningFailed that lets the error reach the caller of the update
ProvisioningFailedRethrown(op, id, order) ==
  Threw(op, "Creating download records failed")

\* lines 350-353 with 222-227: createDownloadRecords catches and logs its error
\* and returns; the update goes on to return the order it updated
ProvisioningFailed(op, id, order) == Updated(op, id, order)

\* the store refuses an access of createDownloadRecords (the select of lines
\* 304-315, the select of 321-328 or the insert of 338-346)
DownloadRecordsFails(p) ==
  /\ pc[p] \in {"dl_select", "dl_check", "dl_insert"}
  /\ Finish(p, ProvisioningFailed(call[p].op, loc[p].orderId, loc[p].order))
  /\ UNCHANGED << store, zone, now >>

\* --------------------------------------------------------- createDownload
\* download rows that exist or that a createDownload under way may insert
DownloadsCommitted ==
  Len(downloads) + Cardinality({ q \in Procs : pc[q] \in {"cd_order", "cd_insert"} })

\* createDownload, lines 13-20: look up the product
CreateDownloadSelectProduct(p, user_id, product_id, order_id) ==
  /\ Free(p)
  /\ IF product_id \notin DOMAIN products
       THEN Finish(p, Threw("createDownload", "Product not found"))
       ELSE /\ DownloadsCommitted < MaxDownloads
            /\ Start(p, [op |-> "createDownload", user_id |-> user_id,
                         product_id |-> product_id, order_id |-> order_id],
                     "cd_order", [expiresAt |-> None])
  /\ UNCHANGED << store, zone, now >>

\* createDownload, lines 23-37: look up the order of the user; expiresAt is
\* 30 days on from the moment the row arrives
CreateDownloadSelectOrder(p) ==
  /\ pc[p] = "cd_order"
  /\ IF \/ call[p].order_id \notin DOMAIN orders
        \/ orders[call[p].order_id].user_id # call[p].user_id
       THEN Finish(p, Threw("createDownload", "Order not found or does not belong to user"))
       ELSE Goto(p, "cd_insert", [expiresAt |-> Some(AddDays(now, GrantDays))])
  /\ UNCHANGED << store, zone, now >>

\* the download row of createDownload, lines 41-47
CreatedRow(user_id, product_id, order_id, expiresAt) ==
  [ user_id |-> user_id, product_id |-> product_id, order_id |-> order_id,
    download_count |-> 0, expires_at |-> expiresAt ]

\* createDownload, lines 40-55: insert the grant
CreateDownloadInsert(p) ==
  /\ pc[p] = "cd_insert"
  /\ downloads' = Append(downloads,
       CreatedRow(call[p].user_id, call[p].product_id, call[p].order_id,
                  loc[p].expiresAt))
  /\ okIncrements' = Append(okIncrements, 0)
  /\ Finish(p, Returned("createDownload", Len(downloads) + 1))
  /\ UNCHANGED << coupons, orders, orderItems, tokenStore, tokenIssued, cartItems, cartAdded, products, users, categories, serial, zone, now >>

\* ------------------------------------------------- incrementDownloadCount
\* AtDownloadLimit off by one (> for >=)
AtDownloadLimitOffByOne(downloadLimit, download_count) ==
  Truthy(downloadLimit) /\ download_count > Val(downloadLimit)

\* lines 171-175: the limit check on the row that was read
AtDownloadLimit(downloadLimit, download_count) ==
  Truthy(downloadLimit) /\ download_count >= Val(downloadLimit)

\* successful increments of a grant, counting the requests that passed the check
IncrementsCommitted(id) ==
  okIncrements[id]
    + Cardinality({ q \in Procs : pc[q] = "ic_write" /\ call[q].downloadId = id })

\* lines 154-175: read the grant with its product and check the limit
IncrementRead(p, downloadId) ==
  /\ Free(p)
  /\ IF downloadId \notin DOMAIN downloads
       THEN Finish(p, Threw("incrementDownloadCount", "Download not found"))
       ELSE LET download == downloads[downloadId] IN
            IF AtDownloadLimit(download_limit(download.product_id), download.download_count)
              THEN Finish(p, Threw("incrementDownloadCount", "Download limit exceeded"))
              ELSE /\ IncrementsCommitted(downloadId) < MaxIncrements
                   /\ Start(p, [op |-> "incrementDownloadCount", downloadId |-> downloadId],
                            "ic_write", [download_count |-> download.download_count])
  /\ UNCHANGED << store, zone, now >>

\* lines 177-190: write the count that was read plus one
IncrementWrite(p) ==
  LET id == call[p].downloadId IN
  /\ pc[p] = "ic_write"
  /\ downloads' = [downloads EXCEPT ![id].download_count = loc[p].download_count + 1]
  /\ okIncrements' = [okIncrements EXCEPT ![id] = @ + 1]
  /\ Finish(p, Returned("incrementDownloadCount", id))
  /\ UNCHANGED << coupons, orders, orderItems, tokenStore, tokenIssued, cartItems, cartAdded, products, users, categories, serial, zone, now >>

\* --------------------------------------------------------- validateCoupon
\* getCouponByCode: the row ids with that code
CouponIdsByCode(code) == { i \in DOMAIN coupons : coupons[i].code = code }

\* lines 116-125: the discount of a coupon that passed the rules; the columns
\* arrive through parseFloat
CouponDiscount(coupon, orderAmount) ==
  LET discount == IF coupon.discount_percentage # None
                    THEN DblDivInt(DblMul(orderAmount,
                                          DblOfCents(Val(coupon.discount_percentage))),
                                   100)
                  ELSE IF coupon.discount_amount # None
                    THEN DblOfCents(Val(coupon.discount_amount))
                  ELSE DblZero
  IN  DblMin(discount, orderAmount)

\* CouponExpired with the comparison turned round
CouponExpiredReversed(coupon) ==
  coupon.expires_at # None /\ Val(coupon.expires_at) > now

\* line 102: the coupon has an expiry and it is in the past
CouponExpired(coupon) ==
  coupon.expires_at # None /\ Val(coupon.expires_at) < now

\* lines 88-131: the value validateCoupon returns
ValidateCouponResult(code, orderAmount) ==
  LET ids == CouponIdsByCode(code)
      invalid == [op |-> "validateCoupon", kind |-> "ok", code |-> code,
                  orderAmount |-> orderAmount, valid |-> FALSE, discount |-> DblZero]
  IN  IF ids = {} THEN invalid
      ELSE LET coupon == coupons[CHOOSE i \in ids : \A j \in ids : i <= j] IN
           IF ~coupon.is_active THEN invalid
           ELSE IF CouponExpired(coupon) THEN invalid
           ELSE IF coupon.max_uses # None /\ coupon.current_uses >= Val(coupon.max_uses)
             THEN invalid
           ELSE IF BelowMinimum(coupon, orderAmount) THEN invalid
           ELSE [op |-> "validateCoupon", kind |-> "ok", code |-> code,
                 orderAmount |-> orderAmount, valid |-> TRUE,
                 discount |-> CouponDiscount(coupon, orderAmount)]

\* validateCoupon, lines 88-136; orderAmount is the number amount / 100
ValidateCoupon(p, code, amount) ==
  /\ Free(p)
  /\ Finish(p, ValidateCouponResult(code, DblOfCents(amount)))
  /\ UNCHANGED << store, zone, now >>

\* ------------------------------------------------------- validateDownload
\* GrantExpired that counts the instant of expiry as past (>= for >)
GrantExpiredAtExpiry(download) ==
  download.expires_at # None /\ now >= Val(download.expires_at)

\* lines 129-132: the grant has an expiry and it is in the past
GrantExpired(download) ==
  download.expires_at # None /\ now > Val(download.expires_at)

\* DownloadLimitReached that ignores the limit
DownloadLimitIgnored(download) == FALSE

\* lines 134-138: the product has a limit and the count has reached it
DownloadLimitReached(download) ==
  /\ Truthy(download_limit(download.product_id))
  /\ download.download_count >= Val(download_limit(download.product_id))

\* DownloadIsValid that also wants the grant's order completed and paid
DownloadIsValidWhilePaid(downloadId, userId) ==
  /\ downloadId \in DOMAIN downloads
  /\ downloads[downloadId].user_id = userId
  /\ downloads[downloadId].product_id \in DOMAIN products
  /\ orders[downloads[downloadId].order_id].status = "completed"
  /\ orders[downloads[downloadId].order_id].payment_status = "completed"
  /\ ~GrantExpired(downloads[downloadId])
  /\ ~DownloadLimitReached(downloads[downloadId])

\* lines 111-143: does validateDownload find the grant valid for the user
DownloadIsValid(downloadId, userId) ==
  /\ downloadId \in DOMAIN downloads
  /\ downloads[downloadId].user_id = userId
  /\ downloads[downloadId].product_id \in DOMAIN products
  /\ ~GrantExpired(downloads[downloadId])
  /\ ~DownloadLimitReached(downloads[downloadId])

\* validateDownload, lines 111-152
ValidateDownload(p, downloadId, userId) ==
  /\ Free(p)
  /\ Finish(p, [op |-> "validateDownload", kind |-> "ok", downloadId |-> downloadId,
                userId |-> userId, valid |-> DownloadIsValid(downloadId, userId)])
  /\ UNCHANGED << store, zone, now >>

\* ------------------------------- generateDownloadToken / validateDownloadToken
\* generateDownloadToken, lines 197-226: validate, then store a fresh token
\* (its index in tokenStore) that expires 15 minutes on by the local clock
GenerateDownloadToken(p, downloadId, userId) ==
  /\ Free(p)
  /\ IF ~DownloadIsValid(downloadId, userId)
       THEN /\ Finish(p, Threw("generateDownloadToken", "Invalid download or access denied"))
            /\ UNCHANGED << tokenStore, tokenIssued >>
       ELSE /\ Len(tokenStore) < MaxTokens
            /\ tokenStore' = Append(tokenStore,
                 Some([downloadId |-> downloadId, userId |-> userId,
                       expires |-> AddMinutes(now, TokenMinutes)]))
            /\ tokenIssued' = Append(tokenIssued,
                 [at |-> now, downloadId |-> downloadId, userId |-> userId,
                  accepted |-> FALSE])
            /\ Finish(p, [op |-> "generateDownloadToken", kind |-> "ok",
                          token |-> Len(tokenStore) + 1])
  /\ UNCHANGED << coupons, orders, orderItems, downloads, okIncrements, cartItems, cartAdded, products, users, categories, serial, zone, now >>

\* line 230: tokenStore.get(token)
TokenData(token) == IF token \in DOMAIN tokenStore THEN tokenStore[token] ELSE None

\* line 237: the token's expiry is in the past
TokenExpired(tokenData) == now > tokenData.expires

\* the value validateDownloadToken returns for a token it rejects
TokenRefused(token) ==
  [op |-> "validateDownloadToken", kind |-> "ok", token |-> token, valid |-> FALSE]
\* and for one it accepts, lines 249-253
TokenAccepted(token, tokenData) ==
  [ op |-> "validateDownloadToken", kind |-> "ok", token |-> token, valid |-> TRUE,
    downloadId |-> tokenData.downloadId, userId |-> tokenData.userId ]

\* validateDownloadToken, lines 230-240: the token is looked up and its expiry
\* checked at once; an expired token is deleted
ValidateDownloadTokenBegin(p, token) ==
  /\ Free(p)
  /\ IF TokenData(token) = None
       THEN /\ Finish(p, TokenRefused(token))
            /\ UNCHANGED tokenStore
       ELSE IF TokenExpired(Val(TokenData(token)))
       THEN /\ Finish(p, TokenRefused(token))
            /\ tokenStore' = [tokenStore EXCEPT ![token] = None]
       ELSE /\ Start(p, [op |-> "validateDownloadToken", token |-> token],
                     "vt_select", [tokenData |-> Val(TokenData(token))])
            /\ UNCHANGED tokenStore
  /\ UNCHANGED << coupons, orders, orderItems, downloads, okIncrements, tokenIssued, cartItems, cartAdded, products, users, categories, serial, zone, now >>

\* ValidateDownloadTokenSelect that accepts the token without a look at its grant
ValidateDownloadTokenSelectUnchecked(p) ==
  /\ pc[p] = "vt_select"
  /\ Finish(p, TokenAccepted(call[p].token, loc[p].tokenData))
  /\ tokenIssued' = [tokenIssued EXCEPT ![call[p].token].accepted = TRUE]
  /\ UNCHANGED << coupons, orders, orderItems, downloads, okIncrements, tokenStore, cartItems, cartAdded, products, users, categories, serial, zone, now >>

\* ValidateDownloadTokenSelect that spends the token it accepts
ValidateDownloadTokenSelectOnce(p) ==
  LET token == call[p].token
      tokenData == loc[p].tokenData
  IN
  /\ pc[p] = "vt_select"
  /\ IF DownloadIsValid(tokenData.downloadId, tokenData.userId)
       THEN /\ Finish(p, TokenAccepted(token, tokenData))
            /\ tokenIssued' = [tokenIssued EXCEPT ![token].accepted = TRUE]
       ELSE /\ Finish(p, TokenRefused(token))
            /\ UNCHANGED tokenIssued
  /\ tokenStore' = [tokenStore EXCEPT ![token] = None]
  /\ UNCHANGED << coupons, orders, orderItems, downloads, okIncrements, cartItems, cartAdded, products, users, categories, serial, zone, now >>

\* validateDownloadToken, lines 243-253: validateDownload reads the grant; a
\* token whose grant fails is deleted
ValidateDownloadTokenSelect(p) ==
  LET token == call[p].token
      tokenData == loc[p].tokenData
  IN
  /\ pc[p] = "vt_select"
  /\ IF DownloadIsValid(tokenData.downloadId, tokenData.userId)
       THEN /\ Finish(p, TokenAccepted(token, tokenData))
            /\ tokenIssued' = [tokenIssued EXCEPT ![token].accepted = TRUE]
            /\ UNCHANGED tokenStore
       ELSE /\ Finish(p, TokenRefused(token))
            /\ tokenStore' = [tokenStore EXCEPT ![token] = None]
            /\ UNCHANGED tokenIssued
  /\ UNCHANGED << coupons, orders, orderItems, downloads, okIncrements, cartItems, cartAdded, products, users, categories, serial, zone, now >>

\* the store refuses the select of validateDownload that validateDownloadToken
\* awaits: validateDownload rethrows (lines 148-151) and the catch of lines
\* 254-257 returns valid: false, past both tokenStore.delete calls
ValidateDownloadTokenLookupFails(p) ==
  /\ pc[p] = "vt_select"
  /\ Finish(p, TokenRefused(call[p].token))
  /\ UNCHANGED << store, zone, now >>

\* ------------------------------ createCoupon / updateCoupon / deleteCoupon
\* lines 9 and 13: the discount rule of createCoupon on the input (0 is falsy)
CreateCouponRejection(input) ==
  IF ~Truthy(input.discount_percentage) /\ ~Truthy(input.discount_amount)
    THEN "Coupon must have either discount_percentage or discount_amount"
  ELSE IF Truthy(input.discount_percentage) /\ Truthy(input.discount_amount)
    THEN "Coupon cannot have both discount_percentage and discount_amount"
  ELSE ""

\* `x ? x.toString() : null` of lines 21-23 and 151-157, as the numeric(_,2)
\* column keeps it; x is the number Val(x) / 100
NumericOrNull(x) == IF Truthy(x) THEN Some(DblToNumeric2(DblOfCents(Val(x)))) ELSE None

\* lines 18-26: the row createCoupon inserts (current_uses and is_active default)
CreatedCoupon(input) ==
  [ code |-> input.code,
    discount_percentage |-> NumericOrNull(input.discount_percentage),
    discount_amount |-> NumericOrNull(input.discount_amount),
    min_order_amount |-> NumericOrNull(input.min_order_amount),
    max_uses |-> input.max_uses, current_uses |-> 0,
    expires_at |-> input.expires_at, is_active |-> TRUE ]

\* createCoupon, lines 6-42; the code column is unique (schema line 65), and
\* an insert it refuses has taken an id from the serial all the same
CreateCoupon(p, input) ==
  /\ Free(p)
  /\ IF CreateCouponRejection(input) # ""
       THEN /\ Finish(p, Threw("createCoupon", CreateCouponRejection(input)))
            /\ UNCHANGED << coupons, serial >>
       ELSE IF CouponIdsByCode(input.code) # {}
       THEN /\ serial.coupons < MaxCoupons
            /\ serial' = Taken("coupons")
            /\ Finish(p, Threw("createCoupon", "duplicate key value"))
            /\ UNCHANGED coupons
       ELSE /\ serial.coupons < MaxCoupons
            /\ coupons' = Inserted(coupons, NextId("coupons"), CreatedCoupon(input))
            /\ serial' = Taken("coupons")
            /\ Finish(p, Returned("createCoupon", NextId("coupons")))
  /\ UNCHANGED << orders, orderItems, downloads, okIncrements, tokenStore, tokenIssued, cartItems, cartAdded, products, users, categories, zone, now >>

\* lines 141-145: updateCoupon rejects only an input that carries both
\* discounts, both truthy; input.fields are the keys that are not undefined
UpdateCouponRejection(input) ==
  IF /\ "discount_percentage" \in input.fields
     /\ "discount_amount" \in input.fields
     /\ Truthy(input.discount_percentage)
     /\ Truthy(input.discount_amount)
    THEN "Coupon cannot have both discount_percentage and discount_amount"
  ELSE ""

\* lines 148-161: updateValues applied to a row
UpdatedCoupon(row, input) ==
  [ code |-> IF "code" \in input.fields THEN input.code ELSE row.code,
    discount_percentage |->
      IF "discount_percentage" \in input.fields
        THEN NumericOrNull(input.discount_percentage) ELSE row.discount_percentage,
    discount_amount |->
      IF "discount_amount" \in input.fields
        THEN NumericOrNull(input.discount_amount) ELSE row.discount_amount,
    min_order_amount |->
      IF "min_order_amount" \in input.fields
        THEN NumericOrNull(input.min_order_amount) ELSE row.min_order_amount,
    max_uses |-> IF "max_uses" \in input.fields THEN input.max_uses ELSE row.max_uses,
    current_uses |-> row.current_uses,
    expires_at |-> IF "expires_at" \in input.fields THEN input.expires_at ELSE row.expires_at,
    is_active |-> IF "is_active" \in input.fields THEN input.is_active ELSE row.is_active ]

\* updateCoupon, lines 138-188
UpdateCoupon(p, input) ==
  /\ Free(p)
  /\ IF UpdateCouponRejection(input) # ""
       THEN /\ Finish(p, Threw("updateCoupon", UpdateCouponRejection(input)))
            /\ UNCHANGED coupons
       ELSE IF input.id \notin DOMAIN coupons
       THEN /\ Finish(p, Threw("updateCoupon", "Coupon not found"))
            /\ UNCHANGED coupons
       ELSE IF "code" \in input.fields /\ CouponIdsByCode(input.code) \ {input.id} # {}
       THEN /\ Finish(p, Threw("updateCoupon", "duplicate key value"))
            /\ UNCHANGED coupons
       ELSE /\ coupons' = [coupons EXCEPT ![input.id] = UpdatedCoupon(@, input)]
            /\ Finish(p, Returned("updateCoupon", input.id))
  /\ UNCHANGED << orders, orderItems, downloads, okIncrements, tokenStore, tokenIssued, cartItems, cartAdded, products, users, categories, serial, zone, now >>

\* deleteCoupon, lines 190-203: the row is kept and made inactive; the value
\* returned tells whether there was such a row
DeleteCoupon(p, id) ==
  /\ Free(p)
  /\ coupons' = IF id \in DOMAIN coupons
                  THEN [coupons EXCEPT ![id].is_active = FALSE]
                  ELSE coupons
  /\ Finish(p, [op |-> "deleteCoupon", kind |-> "ok", id |-> id,
                deleted |-> id \in DOMAIN coupons])
  /\ UNCHANGED << orders, orderItems, downloads, okIncrements, tokenStore, tokenIssued, cartItems, cartAdded, products, users, categories, serial, zone, now >>

\* ------------------------------------------------------------- createUser
\* part_009 lines 40-43: the users with the email
UserIdsByEmail(email) == { i \in DOMAIN users : users[i].email = email }
\* ids of users given, or to be taken by a createUser under way
UsersCommitted ==
  serial.users + Cardinality({ q \in Procs : pc[q] = "cu_insert" })

\* createUser, lines 37-47: look for a user of the email
CreateUserSelect(p, email) ==
  /\ Free(p)
  /\ IF UserIdsByEmail(email) # {}
       THEN Finish(p, Threw("createUser", "User with this email already exists"))
       ELSE /\ UsersCommitted < MaxUsers
            /\ Start(p, [op |-> "createUser", email |-> email], "cu_insert", NoLoc)
  /\ UNCHANGED << store, zone, now >>

\* lines 49-68: insert the user; the email column is unique (schema line 22),
\* so the insert of a second request that looked at the same time is refused
CreateUserInsert(p) ==
  /\ pc[p] = "cu_insert"
  /\ serial' = Taken("users")
  /\ IF UserIdsByEmail(call[p].email) # {}
       THEN /\ Finish(p, Threw("createUser", "duplicate key value"))
            /\ UNCHANGED users
       ELSE /\ users' = Inserted(users, NextId("users"), [email |-> call[p].email])
            /\ Finish(p, Returned("createUser", NextId("users")))
  /\ UNCHANGED << coupons, orders, orderItems, downloads, okIncrements, tokenStore, tokenIssued, cartItems, cartAdded, products, categories, zone, now >>

\* ------------------------------------------ createCategory, updateCategory
\* the categories with the slug
CategoryIdsBySlug(slug) == { i \in DOMAIN categories : categories[i].slug = slug }

\* createCategory, part_002 lines 6-22: one insert; the slug column is unique
\* (schema line 37)
CreateCategory(p, slug) ==
  /\ Free(p)
  /\ serial.categories < MaxCategories
  /\ serial' = Taken("categories")
  /\ IF CategoryIdsBySlug(slug) # {}
       THEN /\ Finish(p, Threw("createCategory", "duplicate key value"))
            /\ UNCHANGED categories
       ELSE /\ categories' = Inserted(categories, NextId("categories"), [slug |-> slug])
            /\ Finish(p, Returned("createCategory", NextId("categories")))
  /\ UNCHANGED << coupons, orders, orderItems, downloads, okIncrements, tokenStore, tokenIssued, cartItems, cartAdded, products, users, zone, now >>

\* updateCategory, part_002 lines 52-79: one update; input.fields are the keys
\* that are not undefined
UpdateCategory(p, input) ==
  /\ Free(p)
  /\ IF input.id \notin DOMAIN categories
       THEN /\ Finish(p, Threw("updateCategory",
                   "Category with ID " \o ToString(input.id) \o " not found"))
            /\ UNCHANGED categories
       ELSE IF "slug" \in input.fields /\ CategoryIdsBySlug(input.slug) \ {input.id} # {}
       THEN /\ Finish(p, Threw("updateCategory", "duplicate key value"))
            /\ UNCHANGED categories
       ELSE /\ categories' =
                 IF "slug" \in input.fields
                   THEN [categories EXCEPT ![input.id].slug = input.slug]
                   ELSE categories
            /\ Finish(p, Returned("updateCategory", input.id))
  /\ UNCHANGED << coupons, orders, orderItems, downloads, okIncrements, tokenStore, tokenIssued, cartItems, cartAdded, products, users, serial, zone, now >>

\* deleteCategory, part_002 lines 81-98: one update that makes the row inactive,
\* a column no handler of the model reads; the value returned tells whether
\* there was such a row
DeleteCategory(p, id) ==
  /\ Free(p)
  /\ Finish(p, [op |-> "deleteCategory", kind |-> "ok", id |-> id,
                deleted |-> id \in DOMAIN categories])
  /\ UNCHANGED << store, zone, now >>

\* ---------------------------------------------------------- createProduct
\* product rows that exist or that a createProduct under way may insert
ProductsCommitted ==
  Len(products) + Cardinality({ q \in Procs : pc[q] = "cp_insert" })

\* createProduct, products.ts lines 6-16: look the category up
CreateProductSelect(p, input) ==
  /\ Free(p)
  /\ IF input.category_id \notin DOMAIN categories
       THEN Finish(p, Threw("createProduct", "Category not found"))
       ELSE /\ ProductsCommitted < MaxProducts
            /\ Start(p, [op |-> "createProduct", input |-> input], "cp_insert", NoLoc)
  /\ UNCHANGED << store, zone, now >>

\* lines 20-27: the columns of the inserted row that handlers read
CreatedProduct(input) ==
  [ digital_file_url |-> input.digital_file_url,
    download_limit |-> input.download_limit ]

\* lines 18-40: insert the product (categories are never removed, so the
\* foreign key of the table holds and the insert is not refused)
CreateProductInsert(p) ==
  /\ pc[p] = "cp_insert"
  /\ products' = Append(products, CreatedProduct(call[p].input))
  /\ Finish(p, Returned("createProduct", Len(products) + 1))
  /\ UNCHANGED << coupons, orders, orderItems, downloads, okIncrements, tokenStore, tokenIssued, cartItems, cartAdded, users, categories, serial, zone, now >>

\* ---------------------------------------------------------- updateProduct
\* products.ts lines 109-116: look the product up
UpdateProductSelect(p, input) ==
  /\ Free(p)
  /\ IF input.id \notin DOMAIN products
       THEN Finish(p, Threw("updateProduct", "Product not found"))
       ELSE Start(p, [op |-> "updateProduct", input |-> input],
                  IF "category_id" \in input.fields THEN "pu_category" ELSE "pu_update",
                  NoLoc)
  /\ UNCHANGED << store, zone, now >>

\* products.ts lines 118-128: an input that carries a category has it looked up
UpdateProductCategory(p) ==
  /\ pc[p] = "pu_category"
  /\ IF call[p].input.category_id \notin DOMAIN categories
       THEN Finish(p, Threw("updateProduct", "Category not found"))
       ELSE Goto(p, "pu_update", NoLoc)
  /\ UNCHANGED << store, zone, now >>

\* products.ts lines 130-138: updateData applied to a row; input.fields are
\* the keys that are not undefined
UpdatedProduct(row, input) ==
  [ digital_file_url |-> IF "digital_file_url" \in input.fields
                           THEN input.digital_file_url ELSE row.digital_file_url,
    download_limit |-> IF "download_limit" \in input.fields
                         THEN input.download_limit ELSE row.download_limit ]

\* products.ts lines 143-153: write the row
UpdateProductUpdate(p) ==
  LET input == call[p].input IN
  /\ pc[p] = "pu_update"
  /\ products' = [products EXCEPT ![input.id] = UpdatedProduct(@, input)]
  /\ Finish(p, Returned("updateProduct", input.id))
  /\ UNCHANGED << coupons, orders, orderItems, downloads, okIncrements, tokenStore, tokenIssued, cartItems, cartAdded, users, categories, serial, zone, now >>

\* ---------------------------------------------------------- deleteProduct
\* products.ts lines 163-170: look the product up
DeleteProductSelect(p, id) ==
  /\ Free(p)
  /\ IF id \notin DOMAIN products
       THEN Finish(p, Threw("deleteProduct", "Product not found"))
       ELSE Start(p, [op |-> "deleteProduct", id |-> id], "pd_update", NoLoc)
  /\ UNCHANGED << store, zone, now >>

\* products.ts lines 172-182: the row is kept and made inactive, a column no
\* handler of the model reads
DeleteProductUpdate(p) ==
  /\ pc[p] = "pd_update"
  /\ Finish(p, [op |-> "deleteProduct", kind |-> "ok", id |-> call[p].id,
                deleted |-> TRUE])
  /\ UNCHANGED << store, zone, now >>

\* -------------------------------------------------------------- addToCart
\* cart.ts lines 9-17: the cart rows of the user and the product
ExistingItems(user_id, product_id) ==
  { i \in DOMAIN cartItems : /\ cartItems[i].user_id = user_id
                             /\ cartItems[i].product_id = product_id }

\* the quantity addToCart calls have added to a pair, counting the calls that
\* have read the cart and not yet written
RECURSIVE CartInFlight(_, _)
CartInFlight(pair, procs) ==
  IF procs = {} THEN 0
  ELSE LET q == CHOOSE r \in procs : TRUE IN
       (IF /\ pc[q] \in {"cart_update", "cart_insert"}
           /\ << call[q].user_id, call[q].product_id >> = pair
          THEN call[q].quantity ELSE 0)
       + CartInFlight(pair, procs \ {q})
CartRequested(pair) == cartAdded[pair] + CartInFlight(pair, Procs)

\* ids of cart_items given, or to be taken by an addToCart under way
CartIdsCommitted ==
  serial.cart_items + Cardinality({ q \in Procs : pc[q] = "cart_insert" })

\* the cart row addToCart returns
CartReturned(id, row) ==
  [ op |-> "addToCart", kind |-> "ok", id |-> id, user_id |-> row.user_id,
    product_id |-> row.product_id, quantity |-> row.quantity ]

\* lines 9-19: read the rows of the pair; existingItem[0] is any of them, the
\* select has no order
AddToCartSelect(p, user_id, product_id, quantity) ==
  LET existingItem == ExistingItems(user_id, product_id)
      c == [op |-> "addToCart", user_id |-> user_id, product_id |-> product_id,
            quantity |-> quantity]
  IN
  /\ Free(p)
  /\ CartRequested(<< user_id, product_id >>) + quantity <= MaxCartQuantity
  /\ IF existingItem # {}
       THEN \E i \in existingItem :
              Start(p, c, "cart_update", [id |-> i, quantity |-> cartItems[i].quantity])
       ELSE /\ CartIdsCommitted < MaxCartIds
            /\ Start(p, c, "cart_insert", NoLoc)
  /\ UNCHANGED << store, zone, now >>

\* lines 21-30: write the quantity that was read plus the input's; when the
\* row has been removed since, the update changes nothing and updated[0],
\* which the handler returns, is undefined
AddToCartUpdate(p) ==
  LET id == loc[p].id
      pair == << call[p].user_id, call[p].product_id >>
  IN
  /\ pc[p] = "cart_update"
  /\ IF id \in DOMAIN cartItems
       THEN LET row == [cartItems[id] EXCEPT
                         !.quantity = loc[p].quantity + call[p].quantity] IN
            /\ cartItems' = [cartItems EXCEPT ![id] = row]
            /\ cartAdded' = [cartAdded EXCEPT ![pair] = @ + call[p].quantity]
            /\ Finish(p, CartReturned(id, row))
       ELSE /\ Finish(p, [op |-> "addToCart", kind |-> "ok", id |-> 0])
            /\ UNCHANGED << cartItems, cartAdded >>
  /\ UNCHANGED << coupons, orders, orderItems, downloads, okIncrements, tokenStore, tokenIssued, products, users, categories, serial, zone, now >>

\* lines 32-42 with 44-47: insert a row; the foreign keys of the table (schema
\* lines 127-134) refuse a user or a product that does not exist
AddToCartInsert(p) ==
  LET row == [user_id |-> call[p].user_id, product_id |-> call[p].product_id,
              quantity |-> call[p].quantity]
      pair == << call[p].user_id, call[p].product_id >>
  IN
  /\ pc[p] = "cart_insert"
  /\ serial' = Taken("cart_items")
  /\ IF call[p].user_id \notin DOMAIN users \/ call[p].product_id \notin DOMAIN products
       THEN /\ Finish(p, Threw("addToCart", "foreign key violation"))
            /\ UNCHANGED << cartItems, cartAdded >>
       ELSE /\ cartItems' = Inserted(cartItems, NextId("cart_items"), row)
            /\ cartAdded' = [cartAdded EXCEPT ![pair] = @ + call[p].quantity]
            /\ Finish(p, CartReturned(NextId("cart_items"), row))
  /\ UNCHANGED << coupons, orders, orderItems, downloads, okIncrements, tokenStore, tokenIssued, products, users, categories, zone, now >>

\* ------------------------------ updateCartItem, removeFromCart, clearCart
\* updateCartItem, cart.ts lines 64-84: one update of the row's quantity
UpdateCartItem(p, id, quantity) ==
  /\ Free(p)
  /\ IF id \in DOMAIN cartItems
       THEN LET row == [cartItems[id] EXCEPT !.quantity = quantity] IN
            /\ cartItems' = [cartItems EXCEPT ![id] = row]
            /\ Finish(p, [CartReturned(id, row) EXCEPT !.op = "updateCartItem"])
       ELSE /\ Finish(p, Threw("updateCartItem", "Cart item not found"))
            /\ UNCHANGED cartItems
  /\ UNCHANGED << coupons, orders, orderItems, downloads, okIncrements, tokenStore, tokenIssued, cartAdded, products, users, categories, serial, zone, now >>

\* removeFromCart, lines 86-97: one delete; true whether or not a row went
RemoveFromCart(p, id) ==
  /\ Free(p)
  /\ cartItems' = Deleted(cartItems, {id})
  /\ Finish(p, Returned("removeFromCart", id))
  /\ UNCHANGED << coupons, orders, orderItems, downloads, okIncrements, tokenStore, tokenIssued, cartAdded, products, users, categories, serial, zone, now >>

\* clearCart, lines 99-110: one delete of the rows of the user
ClearCart(p, userId) ==
  /\ Free(p)
  /\ cartItems' = Deleted(cartItems, { i \in DOMAIN cartItems :
                                        cartItems[i].user_id = userId })
  /\ Finish(p, Returned("clearCart", userId))
  /\ UNCHANGED << coupons, orders, orderItems, downloads, okIncrements, tokenStore, tokenIssued, cartAdded, products, users, categories, serial, zone, now >>

\* ------------------------------------------------------------------ clock
\* the instants at which some check changes its answer: an expiry and just after
Instants ==
  UNION { { Val(coupons[i].expires_at), Val(coupons[i].expires_at) + 1 } :
            i \in { j \in DOMAIN coupons : coupons[j].expires_at # None } }

Tick ==
  /\ \E t \in Instants : t > now /\ t <= MaxTime /\ now' = t
  /\ UNCHANGED << store, zone, pc, call, loc, last >>

\* the instants at which a grant or a token changes its answer, those around
\* the change of the zone's clocks, and the end of a token's 15 minutes
DownloadInstants ==
  UNION { { Val(downloads[d].expires_at), Val(downloads[d].expires_at) + 1 } :
            d \in { e \in DOMAIN downloads : downloads[e].expires_at # None } }
  \cup UNION { { Val(tokenStore[t]).expires, Val(tokenStore[t]).expires + 1 } :
                 t \in { u \in DOMAIN tokenStore : tokenStore[u] # None } }
  \cup UNION { { tokenIssued[t].at + TokenMinutes, tokenIssued[t].at + TokenMinutes + 1 } :
                 t \in DOMAIN tokenIssued }
  \cup { zone.at - 1, zone.at }

\* the clock stops once the grants made at the start have expired
Horizon == GrantDays * MinutesPerDay + ZoneShift + TokenMinutes

TickDownloads ==
  /\ \E t \in DownloadInstants : t > now /\ t <= Horizon /\ now' = t
  /\ UNCHANGED << store, zone, pc, call, loc, last >>

\* ------------------------------------------------------------ the system
\* orderAmount of validateCoupon, in hundredths: the router takes any number
OrderAmounts == {-1000, 1000, 3000}
DownloadUsers == {1, 2}
DownloadProducts == {2, 3, 4}
Codes == {""} \cup CouponCodes

\* createOrder without a coupon code
CreateOrderPlain(p) ==
  \/ \E u \in OrderUsers, items \in ItemLists : CreateOrderSelectUser(p, u, items, "")
  \/ CreateOrderSelectProduct(p)
  \/ CreateOrderInsertOrder(p)
  \/ CreateOrderInsertItem(p)

\* createOrder, whatever coupon code it is given
CreateOrder(p) ==
  \/ \E u \in OrderUsers, items \in ItemLists, code \in Codes :
       CreateOrderSelectUser(p, u, items, code)
  \/ CreateOrderSelectProduct(p)
  \/ CreateOrderSelectCoupon(p)
  \/ CreateOrderUpdateCoupon(p)
  \/ CreateOrderInsertOrder(p)
  \/ CreateOrderInsertItem(p)

\* createDownloadRecords, started by an update that completes a paid order
DownloadRecords(p) ==
  \/ DownloadRecordsSelect(p)
  \/ DownloadRecordsCheck(p)
  \/ DownloadRecordsInsert(p)

\* updateOrderStatus and updatePaymentStatus, with createDownloadRecords
UpdateOrder(p) ==
  \/ \E id \in 1..MaxTargetId, s \in OrderStatuses : UpdateOrderStatusSelect(p, id, s)
  \/ UpdateOrderStatusUpdate(p)
  \/ \E id \in 1..MaxTargetId, s \in PaymentStatuses : UpdatePaymentStatusSelect(p, id, s)
  \/ UpdatePaymentStatusUpdate(p)
  \/ DownloadRecords(p)

Download(p) ==
  \/ \E u \in DownloadUsers, pr \in DownloadProducts, o \in 1..MaxTargetId :
       CreateDownloadSelectProduct(p, u, pr, o)
  \/ CreateDownloadSelectOrder(p)
  \/ CreateDownloadInsert(p)

Increment(p) ==
  \/ \E d \in 1..MaxDownloadId : IncrementRead(p, d)
  \/ IncrementWrite(p)

Validate(p) ==
  \E code \in CouponCodes, amount \in OrderAmounts : ValidateCoupon(p, code, amount)

\* what an admin may submit to updateProduct: a download limit set or taken
\* away, a digital file taken away, the product moved to a category
UpdateProductInputs ==
  [ id : {2, 4}, fields : { {"download_limit"}, {"digital_file_url"} },
    digital_file_url : { None }, download_limit : { None, Some(1) },
    category_id : {1} ]
  \cup
  [ id : {2}, fields : { {"category_id"} }, digital_file_url : { None },
    download_limit : { None }, category_id : {1, 2} ]

UpdateProduct(p) ==
  \/ \E input \in UpdateProductInputs : UpdateProductSelect(p, input)
  \/ UpdateProductCategory(p)
  \/ UpdateProductUpdate(p)

\* what an admin may submit to createProduct
CreateProductInputs ==
  [ category_id : {1},
    digital_file_url : { None, Some("https://cdn/4") },
    download_limit : { None, Some(1) } ]
  \cup
  [ category_id : {2}, digital_file_url : { Some("https://cdn/4") },
    download_limit : { Some(1) } ]

CreateProduct(p) ==
  \/ \E input \in CreateProductInputs : CreateProductSelect(p, input)
  \/ CreateProductInsert(p)

\* a registration, of an email that is taken or of a new one
CreateUser(p) ==
  \/ \E email \in { "a@x.org", "c@x.org" } : CreateUserSelect(p, email)
  \/ CreateUserInsert(p)

\* the slugs of categories, and what an admin may submit to updateCategory
Slugs == { "c1", "c2" }
UpdateCategoryInputs ==
  [ id : {1, 2}, fields : { {"slug"} }, slug : Slugs ]
  \cup
  [ id : {1}, fields : { {} }, slug : {"c1"} ]

DeleteProduct(p) ==
  \/ \E id \in {2, 4} : DeleteProductSelect(p, id)
  \/ DeleteProductUpdate(p)

ValidateDownloadToken(p) ==
  \/ \E t \in 1..MaxTokens : ValidateDownloadTokenBegin(p, t)
  \/ ValidateDownloadTokenSelect(p)

\* the cart handlers
AddToCart(p) ==
  \/ \E u \in CartUsers, pr \in CartProducts, q \in CartQuantities : AddToCartSelect(p, u, pr, q)
  \/ AddToCartUpdate(p)
  \/ AddToCartInsert(p)

\* what an admin may submit as a discount percentage and a discount amount, in
\* hundredths
DiscountPercentages == { None, Some(0), Some(1000) }
DiscountAmounts == { None, Some(5000) }
\* createCoupon inputs
CreateCouponInputs ==
  [ code : CouponCodes, discount_percentage : DiscountPercentages,
    discount_amount : DiscountAmounts, min_order_amount : { None, Some(2000) },
    max_uses : { None }, expires_at : { None } ]
\* updateCoupon inputs: any subset of the discount fields and is_active
UpdateCouponInputs ==
  [ id : 1..MaxCoupons,
    fields : SUBSET {"discount_percentage", "discount_amount", "is_active"},
    code : {"SAVE"}, discount_percentage : DiscountPercentages,
    discount_amount : DiscountAmounts, min_order_amount : { None },
    max_uses : { None }, expires_at : { None }, is_active : BOOLEAN ]

\* the coupon handlers of the admin
CouponAdmin(p) ==
  \/ \E input \in CreateCouponInputs : CreateCoupon(p, input)
  \/ \E input \in UpdateCouponInputs : UpdateCoupon(p, input)
  \/ \E id \in 1..MaxCoupons : DeleteCoupon(p, id)

\* one step of a request, whatever its handler: of the users, the catalogue,
\* the coupons, the cart, the orders and the downloads
Step(p) ==
  \/ CreateUser(p)
  \/ \E slug \in Slugs : CreateCategory(p, slug)
  \/ \E input \in UpdateCategoryInputs : UpdateCategory(p, input)
  \/ \E id \in 1..MaxCategories : DeleteCategory(p, id)
  \/ CreateProduct(p)
  \/ UpdateProduct(p)
  \/ DeleteProduct(p)
  \/ CouponAdmin(p)
  \/ Validate(p)
  \/ AddToCart(p)
  \/ \E id \in 1..MaxCartIds, q \in CartQuantities : UpdateCartItem(p, id, q)
  \/ \E id \in 1..MaxCartIds : RemoveFromCart(p, id)
  \/ \E u \in CartUsers : ClearCart(p, u)
  \/ CreateOrder(p)
  \/ UpdateOrder(p)
  \/ Download(p)
  \/ Increment(p)
  \/ \E d \in 1..MaxDownloadId, u \in DownloadUsers : ValidateDownload(p, d, u)
  \/ \E d \in 1..MaxDownloadId, u \in DownloadUsers : GenerateDownloadToken(p, d, u)
  \/ ValidateDownloadToken(p)

Next == Tick \/ TickDownloads \/ \E p \in Procs : Step(p)

\* the whole system, requests running concurrently
Spec == InitSeeded /\ [][Next]_vars

\* checkout: orders are placed and coupons redeemed, concurrently
CheckoutStep(p) == CreateOrder(p) \/ Validate(p)
SpecCheckout == InitSeeded /\ [][Tick \/ \E p \in Procs : CheckoutStep(p)]_vars

\* checkout, one request at a time (each handler ends before the next starts),
\* over every kind of coupon
SpecCheckoutSeq == InitAnyCoupon /\ [][Tick \/ CheckoutStep(1)]_vars

\* checkout, one request at a time, on a store that may refuse a write
SpecCheckoutFaulty ==
  InitSeeded /\ [][Tick \/ CheckoutStep(1) \/ CreateOrderWriteFails(1)]_vars

\* updates that complete and pay an order, with the provisioning they start
CompleteOrder(p) ==
  \/ \E id \in 1..MaxTargetId : UpdateOrderStatusSelect(p, id, "completed")
  \/ UpdateOrderStatusUpdate(p)
  \/ \E id \in 1..MaxTargetId : UpdatePaymentStatusSelect(p, id, "completed")
  \/ UpdatePaymentStatusUpdate(p)
  \/ DownloadRecords(p)

\* download access, one request at a time: an order is completed and paid,
\* grants are made, counted and validated while time passes and an admin
\* edits the products
SpecAccess ==
  InitOrderedUtc
    /\ [][ \/ CompleteOrder(1)
           \/ Download(1)
           \/ Increment(1)
           \/ \E d \in 1..MaxDownloadId, u \in DownloadUsers : ValidateDownload(1, d, u)
           \/ UpdateProduct(1)
           \/ TickDownloads ]_vars

\* download tokens, one request at a time: downloads of a grant are counted,
\* tokens issued and validated while time passes
TokenNext ==
  \/ Increment(1)
  \/ \E d \in 1..MaxDownloadId, u \in DownloadUsers : GenerateDownloadToken(1, d, u)
  \/ ValidateDownloadToken(1)
  \/ TickDownloads
SpecTokens == InitGranted /\ [][TokenNext]_vars

\* download tokens, one request at a time, on a store that may refuse the
\* grant lookup of validateDownloadToken
SpecTokensFaulty ==
  InitGranted /\ [][TokenNext \/ ValidateDownloadTokenLookupFails(1)]_vars

\* coupon administration, one request at a time
SpecCouponAdmin == Init /\ [][CouponAdmin(1)]_vars

\* fulfilment: an order is moved through its statuses and grants are made,
\* concurrently
FulfilStep(p) == UpdateOrder(p) \/ Download(p)
SpecFulfil == InitOrderedUtc /\ [][\E p \in Procs : FulfilStep(p)]_vars

\* addToCart, the calls interleaved, while users register
SpecCart == Init /\ [][\E p \in Procs : AddToCart(p) \/ CreateUser(p)]_vars

\* after the sale, one request at a time: orders are placed and moved through
\* their statuses, their grants counted and validated while time passes
SpecAfterSale ==
  Init /\ [][ \/ CreateOrderPlain(1)
              \/ UpdateOrder(1)
              \/ Increment(1)
              \/ \E d \in 1..MaxDownloadId, u \in DownloadUsers : ValidateDownload(1, d, u)
              \/ TickDownloads ]_vars

\* orders placed with and without a coupon and moved through their statuses,
\* one request at a time, while time passes
SpecOrderUpdates == InitSeeded /\ [][Tick \/ CreateOrder(1) \/ UpdateOrder(1)]_vars

\* the order lifecycle alone, one request at a time, in any of the zones
SpecLifecycleSeq == InitAnyZone /\ [][CreateOrderPlain(1) \/ UpdateOrder(1)]_vars

\* the order lifecycle, one request at a time, on a store that may refuse an
\* access of createDownloadRecords
SpecLifecycleFaulty ==
  Init /\ [][CreateOrderPlain(1) \/ UpdateOrder(1) \/ DownloadRecordsFails(1)]_vars

\* downloads of granted products, concurrently
DownloadStep(p) == CreateOrderPlain(p) \/ Download(p) \/ Increment(p)
SpecDownload == Init /\ [][\E p \in Procs : DownloadStep(p)]_vars

\* downloads, one request at a time, of a catalogue that grows
SpecDownloadSeq ==
  Init /\ [][ \/ DownloadStep(1)
              \/ \E slug \in Slugs : CreateCategory(1, slug)
              \/ CreateProduct(1) ]_vars

\* ================================================================ claims
\* orders that redeemed coupon c
Redemptions(c) == { o \in DOMAIN orders : orders[o].coupon_id = Some(c) }
Idle == \A p \in Procs : pc[p] = "idle"

\* C1: a capped coupon is never redeemed by more orders than it had uses left
\* (every seeded coupon starts with current_uses = 0), and its current_uses
\* never exceeds max_uses, whatever the interleaving of createOrder calls.
C1_CappedCouponNeverOverspent ==
  \A c \in DOMAIN coupons :
    coupons[c].max_uses # None =>
      /\ Cardinality(Redemptions(c)) <= Val(coupons[c].max_uses)
      /\ coupons[c].current_uses <= Val(coupons[c].max_uses)

\* C2: under any interleaving of incrementDownloadCount calls on a grant whose
\* product has download_limit = N, download_count never exceeds N and no more
\* than N calls succeed.
C2_DownloadLimitHolds ==
  \A d \in DOMAIN downloads :
    LET limit == download_limit(downloads[d].product_id) IN
    limit # None =>
      /\ downloads[d].download_count <= Val(limit)
      /\ okIncrements[d] <= Val(limit)

\* C5: there is at most one download grant per (user, product, order) triple.
C5_OneGrantPerTriple ==
  \A d, e \in DOMAIN downloads :
    ( /\ downloads[d].user_id = downloads[e].user_id
      /\ downloads[d].product_id = downloads[e].product_id
      /\ downloads[d].order_id = downloads[e].order_id ) => d = e

\* C6: every persisted order has discount_amount <= total_amount.
C6_DiscountWithinTotal ==
  \A o \in DOMAIN orders : orders[o].discount_amount <= orders[o].total_amount

\* C7: every persisted order has final_amount = total_amount - discount_amount.
C7_FinalIsTotalMinusDiscount ==
  \A o \in DOMAIN orders :
    orders[o].final_amount = orders[o].total_amount - orders[o].discount_amount

\* line items of order o, and the grants of one of its products
ItemsOf(o) == { k \in DOMAIN orderItems : orderItems[k].order_id = o }
GrantsFor(dl, o, pr) ==
  { d \in DOMAIN dl : dl[d].order_id = o /\ dl[d].product_id = pr }
GrantRows(dl, o) == { << d, dl[d] >> : d \in { e \in DOMAIN dl : dl[e].order_id = o } }
CompletedAndPaid(o) ==
  orders[o].status = "completed" /\ orders[o].payment_status = "completed"
IsDigital(pr) == digital_file_url(pr) # None

\* C3: once an order has been completed and paid (in either order), each of its
\* line items with a digital product has exactly one grant, owned by the
\* order's user, and each line item with a physical product has none; and the
\* updates insert a grant only for an order that is completed and paid.
C3_GrantsWhenCompleted ==
  \A o \in DOMAIN orders :
    (Idle /\ CompletedAndPaid(o)) =>
      \A k \in ItemsOf(o) :
        LET pr == orderItems[k].product_id
            grants == GrantsFor(downloads, o, pr)
        IN  IF IsDigital(pr)
              THEN /\ Cardinality(grants) = 1
                   /\ \A d \in grants : downloads[d].user_id = orders[o].user_id
              ELSE grants = {}
C3_NoGrantBefore ==
  \A d \in DOMAIN downloads' :
    d \notin DOMAIN downloads => CompletedAndPaid(downloads'[d].order_id)
C3_ProvisionOnCompletion == [] C3_GrantsWhenCompleted /\ [][C3_NoGrantBefore]_vars
C3_Witness ==
  /\ Idle
  /\ last.op = "updatePaymentStatus"
  /\ \E o \in DOMAIN orders :
       /\ CompletedAndPaid(o)
       /\ \E k, m \in ItemsOf(o) :
            /\ ~IsDigital(orderItems[k].product_id)
            /\ IsDigital(orderItems[m].product_id)
            /\ Cardinality(GrantsFor(downloads, o, orderItems[m].product_id)) = 1

\* an order all of whose digital line items have a grant
Provisioned(o) ==
  \A k \in ItemsOf(o) :
    IsDigital(orderItems[k].product_id)
      => GrantsFor(downloads, o, orderItems[k].product_id) # {}

\* C4: provisioning is idempotent: once an order's grants exist, no
\* updateOrderStatus / updatePaymentStatus call, repeated or re-entering
\* (completed, completed), adds, removes or changes a grant of that order.
C4_ProvisioningIdempotent ==
  [][ \A o \in DOMAIN orders :
        Provisioned(o) => GrantRows(downloads', o) = GrantRows(downloads, o) ]_vars
\* a provisioning run that starts on an order whose grant exists already
C4_Witness ==
  /\ pc[1] = "dl_check"
  /\ loc[1].i = 1
  /\ GrantsFor(downloads, loc[1].orderId, loc[1].items[1].product_id) # {}
  /\ Provisioned(loc[1].orderId)

\* a checkout of this total that coupon c accepts but for its usage cap
OtherwiseValid(c, total) ==
  /\ coupons[c].is_active
  /\ coupons[c].expires_at = None \/ now <= Val(coupons[c].expires_at)
  /\ coupons[c].min_order_amount = None
       \/ ~DblLess(total, DblOfCents(Val(coupons[c].min_order_amount)))
LimitError == Threw("createOrder", "Coupon usage limit exceeded")

\* C8: with one request at a time, a coupon capped at M that started unused is
\* accepted by createOrder while fewer than M orders have redeemed it, and
\* from the M-th redemption on createOrder fails with the usage-limit error
\* and writes nothing; an accepted checkout goes on to return its order, and
\* each redemption raises current_uses by one.
C8_Redemption ==
  /\ \A c \in DOMAIN coupons :
       ( /\ CreateOrderSelectCoupon(1)
         /\ call[1].coupon_code = coupons[c].code
         /\ coupons[c].max_uses # None
         /\ OtherwiseValid(c, loc[1].totalAmount) )
       => IF Cardinality(Redemptions(c)) < Val(coupons[c].max_uses)
            THEN pc'[1] = "co_update" /\ loc'[1].couponId = Some(c)
            ELSE last' = LimitError /\ UNCHANGED << coupons, orders, orderItems >>
  /\ (pc[1] \in {"co_update", "co_order", "co_items"} /\ pc'[1] = "idle")
       => last'.op = "createOrder" /\ last'.kind = "ok"
C8_Counted ==
  \A c \in DOMAIN coupons :
    /\ coupons[c].max_uses # None
         => Cardinality(Redemptions(c)) <= Val(coupons[c].max_uses)
    /\ Idle => coupons[c].current_uses = Cardinality(Redemptions(c))
C8_CapEnforcedInSequence == [] C8_Counted /\ [][C8_Redemption]_vars
C8_Witness ==
  /\ last = LimitError
  /\ \E c \in DOMAIN coupons :
       /\ coupons[c].max_uses = Some(2)
       /\ Cardinality(Redemptions(c)) = 2

DownloadLimitError == Threw("incrementDownloadCount", "Download limit exceeded")

\* C9: with one request at a time, incrementDownloadCount on a grant whose
\* product has download_limit = N succeeds while fewer than N calls have
\* succeeded and from then on fails with the limit error, leaving
\* download_count = N; on a grant whose product has no limit it always
\* passes; each success raises download_count by one.
C9_Increment ==
  \A d \in DOMAIN downloads :
    IncrementRead(1, d) =>
      LET limit == download_limit(downloads[d].product_id) IN
      IF limit # None /\ okIncrements[d] >= Val(limit)
        THEN /\ last' = DownloadLimitError
             /\ downloads' = downloads
             /\ downloads[d].download_count = Val(limit)
        ELSE pc'[1] = "ic_write"
C9_Counted ==
  \A d \in DOMAIN downloads :
    /\ Idle => downloads[d].download_count = okIncrements[d]
    /\ download_limit(downloads[d].product_id) # None
         => okIncrements[d] <= Val(download_limit(downloads[d].product_id))
C9_LimitEnforcedInSequence == [] C9_Counted /\ [][C9_Increment]_vars
C9_Witness ==
  /\ last = DownloadLimitError
  /\ \E d, e \in DOMAIN downloads :
       /\ download_limit(downloads[d].product_id) = Some(DlLimit)
       /\ okIncrements[d] = DlLimit
       /\ downloads[d].download_count = DlLimit
       /\ download_limit(downloads[e].product_id) = None
       /\ okIncrements[e] = MaxIncrements

\* the five rules of the coupon evaluator, all passing for some coupon of the
\* code; amount and min_order_amount are both in hundredths
AllRulesPass(code, amount) ==
  \E c \in DOMAIN coupons :
    /\ coupons[c].code = code
    /\ coupons[c].is_active
    /\ coupons[c].expires_at = None \/ Val(coupons[c].expires_at) >= now
    /\ coupons[c].max_uses = None \/ coupons[c].current_uses < Val(coupons[c].max_uses)
    /\ coupons[c].min_order_amount = None
         \/ amount >= Val(coupons[c].min_order_amount)

\* C10: validateCoupon returns valid = true exactly when all five rules pass
\* (the code exists, the coupon is active, not past its expiry, under its
\* usage cap, and the order reaches its minimum), and discount = 0 whenever it
\* returns valid = false.
C10_ValidateCouponRules ==
  [][ \A code \in CouponCodes, amount \in OrderAmounts :
        (last'.op = "validateCoupon" /\ ValidateCoupon(1, code, amount)) =>
          /\ last'.valid = AllRulesPass(code, amount)
          /\ ~last'.valid => last'.discount = DblZero ]_vars
\* validateCoupon has just rejected an active, unexpired coupon that is used up
C10_Witness ==
  /\ last.op = "validateCoupon"
  /\ ~last.valid
  /\ last.discount = DblZero
  /\ \E c \in DOMAIN coupons :
       /\ coupons[c].code = last.code
       /\ coupons[c].is_active
       /\ coupons[c].expires_at = None
       /\ coupons[c].max_uses # None
       /\ coupons[c].current_uses >= Val(coupons[c].max_uses)
       /\ coupons[c].min_order_amount = None

\* C11: the discount validateCoupon returns with valid = true is the
\* percentage of orderAmount or the fixed discount_amount, capped at
\* orderAmount; and whatever it returns, the discount is never negative and
\* never more than orderAmount.
C11_DiscountCapped ==
  last.op = "validateCoupon" =>
    /\ ~DblLess(last.discount, DblZero)
    /\ ~DblLess(last.orderAmount, last.discount)
    /\ last.valid =>
         \E c \in DOMAIN coupons :
           /\ coupons[c].code = last.code
           /\ LET raw == IF coupons[c].discount_percentage # None
                           THEN DblDivInt(
                                  DblMul(last.orderAmount,
                                         DblOfCents(Val(coupons[c].discount_percentage))),
                                  100)
                           ELSE DblOfCents(Val(coupons[c].discount_amount))
              IN  last.discount = IF DblLess(raw, last.orderAmount)
                                    THEN raw ELSE last.orderAmount

\* a coupon code that must make a checkout of this total fail: it names no
\* coupon, or a coupon that is inactive, expired, used up, or needs a larger order
BadCouponCode(code, total) ==
  /\ code # ""
  /\ \A c \in DOMAIN coupons :
       coupons[c].code = code =>
         \/ ~coupons[c].is_active
         \/ coupons[c].expires_at # None /\ now > Val(coupons[c].expires_at)
         \/ coupons[c].max_uses # None /\ coupons[c].current_uses >= Val(coupons[c].max_uses)
         \/ coupons[c].min_order_amount # None
              /\ DblLess(total, DblOfCents(Val(coupons[c].min_order_amount)))

\* createOrder of p throws and writes no coupon, order or order item
Aborts(p) ==
  /\ last'.op = "createOrder" /\ last'.kind = "error"
  /\ pc'[p] = "idle"
  /\ UNCHANGED << coupons, orders, orderItems >>

\* C12: createOrder called with a user that does not exist, a line item whose
\* product does not exist, or a bad coupon code (unknown, inactive, expired,
\* used up, order below the minimum) throws, and writes no order row and no
\* order item (it has written nothing before it looks these up).
C12_BadRequestAborts ==
  [][ \A p \in Procs :
        /\ \A u \in OrderUsers, items \in ItemLists, code \in Codes :
             (CreateOrderSelectUser(p, u, items, code) /\ u \notin DOMAIN users) => Aborts(p)
        /\ ( /\ CreateOrderSelectProduct(p)
             /\ call[p].items[loc[p].i].product_id \notin DOMAIN products ) => Aborts(p)
        /\ ( /\ CreateOrderSelectCoupon(p)
             /\ BadCouponCode(call[p].coupon_code, loc[p].totalAmount) ) => Aborts(p) ]_vars

\* C13: createOrder treats a supplied coupon code as validateCoupon(code, total)
\* decides on the same coupon state: the coupon is applied (coupon_id set,
\* current_uses about to be incremented) exactly when validateCoupon returns
\* valid = true, and the discount_amount stored with the order is the discount
\* validateCoupon returns.
C13_OrderFollowsValidateCoupon ==
  [][ \A p \in Procs :
        CreateOrderSelectCoupon(p) =>
          LET verdict == ValidateCouponResult(call[p].coupon_code, loc[p].totalAmount)
              applied == pc'[p] = "co_update" /\ loc'[p].couponId # None
          IN  /\ applied <=> verdict.valid
              /\ applied => DblToNumeric2(loc'[p].discountAmount)
                              = DblToNumeric2(verdict.discount) ]_vars

\* C14: an order and its line items are created atomically: whenever
\* createOrder ends, by returning or by throwing on a failed store write, an
\* order row it inserted has all the line items that were submitted for it.
C14_OrderHasAllItems ==
  [][ \A p \in Procs :
        (pc[p] \in {"co_order", "co_items"} /\ pc'[p] = "idle") =>
          LET o == IF pc[p] = "co_items" THEN loc[p].order_id ELSE Len(orders) + 1 IN
          o \in DOMAIN orders' =>
            Cardinality({ k \in DOMAIN orderItems' : orderItems'[k].order_id = o })
              = Len(call[p].items) ]_vars

\* C15: when provisioning fails during an update that completes an order,
\* updateOrderStatus / updatePaymentStatus still returns the updated order
\* (it does not throw), and the status it wrote stays in the store.
C15_ProvisioningFailureSwallowed ==
  [][ \A p \in Procs :
        DownloadRecordsFails(p) =>
          LET o == loc[p].orderId IN
          /\ last'.op = call[p].op
          /\ last'.kind = "ok"
          /\ last'.id = o
          /\ last'.status = "completed" /\ last'.payment_status = "completed"
          /\ orders'[o].status = "completed" /\ orders'[o].payment_status = "completed" ]_vars
\* an update has returned a completed and paid order whose digital item got no grant
C15_Witness ==
  /\ Idle
  /\ last.op = "updatePaymentStatus" /\ last.kind = "ok"
  /\ last.id \in DOMAIN orders
  /\ CompletedAndPaid(last.id)
  /\ \E k \in ItemsOf(last.id) :
       /\ IsDigital(orderItems[k].product_id)
       /\ GrantsFor(downloads, last.id, orderItems[k].product_id) = {}

\* order ids the updates are called with
UpdateTargets == DOMAIN orders \cap (1..MaxTargetId)

\* C16: no transition is rejected. For an existing order in any (status,
\* payment_status), updateOrderStatus(id, s) can be called with each of the
\* four statuses, goes on to its write, writes status = s and returns the
\* order; likewise updatePaymentStatus(id, p) with each of the three payment
\* statuses; an update that goes on to provision returns the order as well.
C16_Accepted ==
  Idle => \A id \in UpdateTargets :
            /\ \A s \in OrderStatuses : ENABLED UpdateOrderStatusSelect(1, id, s)
            /\ \A s \in PaymentStatuses : ENABLED UpdatePaymentStatusSelect(1, id, s)
C16_Applied ==
  /\ \A id \in UpdateTargets, s \in OrderStatuses :
       UpdateOrderStatusSelect(1, id, s) =>
         /\ pc'[1] = "uo_update"
         /\ call'[1].id = id /\ call'[1].status = s
  /\ \A id \in UpdateTargets, s \in PaymentStatuses :
       UpdatePaymentStatusSelect(1, id, s) =>
         /\ pc'[1] = "up_update"
         /\ call'[1].id = id /\ call'[1].paymentStatus = s
  /\ UpdateOrderStatusUpdate(1) =>
       LET id == call[1].id IN
       /\ orders'[id].status = call[1].status
       /\ orders'[id].payment_status = orders[id].payment_status
       /\ \/ pc'[1] = "dl_select"
          \/ last' = [op |-> "updateOrderStatus", kind |-> "ok", id |-> id,
                      status |-> call[1].status,
                      payment_status |-> orders[id].payment_status]
  /\ UpdatePaymentStatusUpdate(1) =>
       LET id == call[1].id IN
       /\ orders'[id].payment_status = call[1].paymentStatus
       /\ orders'[id].status = orders[id].status
       /\ \/ pc'[1] = "dl_select"
          \/ last' = [op |-> "updatePaymentStatus", kind |-> "ok", id |-> id,
                      status |-> orders[id].status,
                      payment_status |-> call[1].paymentStatus]
  /\ (pc[1] \in {"dl_select", "dl_check", "dl_insert"} /\ pc'[1] = "idle") =>
       /\ last'.op = call[1].op /\ last'.kind = "ok"
       /\ orders' = orders
C16_NoTransitionRejected == [] C16_Accepted /\ [][C16_Applied]_vars
\* an order that was completed and paid (it has a grant) has since had its
\* payment set to failed and its status set back to pending
C16_Witness ==
  /\ last.op = "updateOrderStatus" /\ last.kind = "ok"
  /\ last.status = "pending" /\ last.payment_status = "failed"
  /\ GrantRows(downloads, last.id) # {}

\* C17: after any sequence of createCoupon and updateCoupon calls, every
\* stored coupon has exactly one of discount_percentage and discount_amount set.
C17_ExactlyOneDiscount ==
  \A c \in DOMAIN coupons :
    (coupons[c].discount_percentage # None) # (coupons[c].discount_amount # None)

\* C18: createCoupon throws and stores nothing for a definition that provides
\* neither discount_percentage nor discount_amount and for one that provides
\* both; it stores the coupon for a definition that provides exactly one (the
\* code being new and the table having room).
C18_CreateCouponDiscountRule ==
  [][ \A input \in CreateCouponInputs :
        ( /\ CreateCoupon(1, input)
          /\ CouponIdsByCode(input.code) = {} )
        => IF (input.discount_percentage # None) # (input.discount_amount # None)
             THEN /\ last' = Returned("createCoupon", NextId("coupons"))
                  /\ DOMAIN coupons' = DOMAIN coupons \cup { NextId("coupons") }
                  /\ coupons'[NextId("coupons")].code = input.code
             ELSE /\ last'.op = "createCoupon" /\ last'.kind = "error"
                  /\ coupons' = coupons ]_vars

\* the four conditions of a usable grant
GrantUsable(d, u) ==
  /\ d \in DOMAIN downloads
  /\ downloads[d].user_id = u
  /\ downloads[d].expires_at = None \/ now <= Val(downloads[d].expires_at)
  /\ download_limit(downloads[d].product_id) = None
       \/ downloads[d].download_count < Val(download_limit(downloads[d].product_id))

\* C19: validateDownload(downloadId, userId) returns valid = true exactly when
\* the grant exists, belongs to userId, has no expires_at or one that is not in
\* the past, and its product has no download_limit or download_count is below it.
C19_ValidateDownloadRules ==
  [][ \A d \in 1..MaxDownloadId, u \in DownloadUsers :
        ValidateDownload(1, d, u) =>
          /\ last'.op = "validateDownload"
          /\ last'.valid = GrantUsable(d, u) ]_vars
\* validateDownload has just refused the owner of an unexpired grant that is
\* used up, while an unlimited grant without expiry exists
C19_Witness ==
  /\ last.op = "validateDownload"
  /\ ~last.valid
  /\ last.downloadId \in DOMAIN downloads
  /\ downloads[last.downloadId].user_id = last.userId
  /\ now <= Val(downloads[last.downloadId].expires_at)
  /\ downloads[last.downloadId].download_count = DlLimit
  /\ download_limit(downloads[last.downloadId].product_id) = Some(DlLimit)
  /\ \E e \in DOMAIN downloads : downloads[e].expires_at = None

\* the grant has expired or its product's limit is used up
GrantSpent(d) ==
  \/ downloads[d].expires_at # None /\ now > Val(downloads[d].expires_at)
  \/ /\ download_limit(downloads[d].product_id) # None
     /\ downloads[d].download_count >= Val(download_limit(downloads[d].product_id))

\* C20: a token issued for a grant is rejected by validateDownloadToken once
\* the grant no longer validates (it has expired, or download_count has
\* reached the product's limit), although the token's own 15 minutes have not
\* elapsed: no call accepts a token before it has looked the grant up, and
\* the lookup rejects the token of a spent grant.
C20_TokenFollowsGrant ==
  [][ /\ \A t \in 1..MaxTokens :
           ValidateDownloadTokenBegin(1, t) => (pc'[1] = "vt_select" \/ ~last'.valid)
      /\ (ValidateDownloadTokenSelect(1) /\ GrantSpent(tokenIssued[call[1].token].downloadId))
           => last' = TokenRefused(call[1].token) ]_vars
\* inside the 15 minutes of every token, a token has been rejected by the
\* lookup of its grant, which is used up
C20_Witness ==
  /\ now < TokenMinutes
  /\ last.op = "validateDownloadToken"
  /\ ~last.valid
  /\ last.token \in DOMAIN tokenStore
  /\ \A t \in DOMAIN tokenStore : tokenStore[t] = None \/ now <= Val(tokenStore[t]).expires
  /\ tokenStore[last.token] = None
  /\ now <= tokenIssued[last.token].at + TokenMinutes
  /\ zone = Utc
  /\ LET d == tokenIssued[last.token].downloadId IN
     /\ download_limit(downloads[d].product_id) = Some(DlLimit)
     /\ downloads[d].download_count = DlLimit

\* C21: whenever validateDownloadToken returns valid = false for a token that
\* is in the token store (the token has expired, its grant no longer
\* validates, or the grant lookup fails), the token is removed from the store.
C21_RejectedTokenRemoved ==
  [][ \A t \in DOMAIN tokenStore :
        ( /\ tokenStore[t] # None
          /\ pc'[1] = "idle"
          /\ last' = TokenRefused(t)
          /\ \/ ValidateDownloadTokenBegin(1, t)
             \/ /\ pc[1] = "vt_select"
                /\ call[1].token = t
                /\ ValidateDownloadTokenSelect(1) \/ ValidateDownloadTokenLookupFails(1) )
        => tokenStore'[t] = None ]_vars

\* C22: validateDownloadToken returns valid = true only for a token that
\* generateDownloadToken issued at most 15 minutes before the call, and then
\* with the (downloadId, userId) the token was issued for; a call made after
\* the token's 15 minutes rejects it.
C22_Issued ==
  \A d \in 1..MaxDownloadId, u \in DownloadUsers :
    (GenerateDownloadToken(1, d, u) /\ last'.kind = "ok") =>
      /\ last'.token = Len(tokenStore) + 1
      /\ Len(tokenStore') = Len(tokenStore) + 1
      /\ Val(tokenStore'[last'.token]).downloadId = d
      /\ Val(tokenStore'[last'.token]).userId = u
C22_Validated ==
  /\ \A t \in 1..MaxTokens :
       ( /\ ValidateDownloadTokenBegin(1, t)
         /\ t \in DOMAIN tokenIssued => now > tokenIssued[t].at + TokenMinutes )
       => pc'[1] = "idle" /\ last' = TokenRefused(t)
  /\ (ValidateDownloadTokenSelect(1) /\ last'.valid) =>
       /\ last'.token = call[1].token
       /\ last'.downloadId = tokenIssued[call[1].token].downloadId
       /\ last'.userId = tokenIssued[call[1].token].userId
C22_TokenWindow == [][C22_Issued /\ C22_Validated]_vars

\* C23: generateDownloadToken(downloadId, userId) stores a token only if the
\* grant validates for the user at that moment; for a missing grant, a grant
\* of another user, an expired grant or a used-up grant it throws and leaves
\* the token store unchanged.
C23_TokenOnlyForValidGrant ==
  [][ \A d \in 1..MaxDownloadId, u \in DownloadUsers :
        GenerateDownloadToken(1, d, u) =>
          IF GrantUsable(d, u)
            THEN /\ last'.op = "generateDownloadToken" /\ last'.kind = "ok"
                 /\ Len(tokenStore') = Len(tokenStore) + 1
            ELSE /\ last' = Threw("generateDownloadToken", "Invalid download or access denied")
                 /\ tokenStore' = tokenStore ]_vars
\* two tokens were issued while the grant validated; it has since been used up
\* and has expired, and generateDownloadToken has just thrown
C23_Witness ==
  /\ last = Threw("generateDownloadToken", "Invalid download or access denied")
  /\ Len(tokenStore) = 2
  /\ \E d \in DOMAIN downloads :
       /\ now > Val(downloads[d].expires_at)
       /\ download_limit(downloads[d].product_id) # None
       /\ downloads[d].download_count >= Val(download_limit(downloads[d].product_id))

\* 30 days, in minutes
ThirtyDays == GrantDays * MinutesPerDay

\* C24: every grant, whether createDownload or the provisioning of a completed
\* and paid order inserts it, starts with download_count 0 and with expires_at
\* 30 days after the insert, whatever the product's download_limit is.
C24_GrantStartsFresh ==
  [][ \A d \in DOMAIN downloads' \ DOMAIN downloads :
        /\ downloads'[d].download_count = 0
        /\ downloads'[d].expires_at = Some(now + ThirtyDays) ]_vars

\* C25: after any interleaving of addToCart calls for the same user and
\* product, once they have all returned, the cart holds exactly one row of
\* the pair and its quantity is the sum of the quantities that were added.
C25_OneRowWithTheSum ==
  (\A p \in Procs : pc[p] = "idle") =>
    \A c \in CartPairs :
      cartAdded[c] > 0 =>
        LET rows == { i \in DOMAIN cartItems : /\ cartItems[i].user_id = c[1]
                                               /\ cartItems[i].product_id = c[2] }
        IN  /\ Cardinality(rows) = 1
            /\ \A i \in rows : cartItems[i].quantity = cartAdded[c]

\* C26: a grant's download_count starts at 0 and never decreases, whatever
\* the sequence or interleaving of operations, concurrent
\* incrementDownloadCount calls included.
C26_CountNeverDecreases ==
  [][ /\ \A d \in DOMAIN downloads :
           /\ d \in DOMAIN downloads'
           /\ downloads'[d].download_count >= downloads[d].download_count
      /\ \A d \in DOMAIN downloads' \ DOMAIN downloads :
           downloads'[d].download_count = 0 ]_vars

\* C27: once a grant is provisioned, no order operation removes or invalidates
\* it: whatever status or payment status its order is moved to afterwards, the
\* grant row stays as it is and validateDownload for its owner is valid
\* whenever the grant has not expired and its limit is not used up.
C27_GrantsOutliveOrderChanges ==
  [][ /\ (orders' # orders \/ orderItems' # orderItems) =>
           \A d \in DOMAIN downloads :
             d \in DOMAIN downloads' /\ downloads'[d] = downloads[d]
      /\ \A d \in DOMAIN downloads :
           ValidateDownload(1, d, downloads[d].user_id) =>
             ( last'.valid <=>
                 /\ downloads[d].expires_at = None \/ now <= Val(downloads[d].expires_at)
                 /\ download_limit(downloads[d].product_id) = None
                      \/ downloads[d].download_count
                           < Val(download_limit(downloads[d].product_id)) ) ]_vars
\* validateDownload has just found a grant valid that has been downloaded from
\* and whose order has since been refunded and its payment marked failed
C27_Witness ==
  /\ last.op = "validateDownload" /\ last.valid
  /\ last.downloadId \in DOMAIN downloads
  /\ orders[downloads[last.downloadId].order_id].status = "refunded"
  /\ orders[downloads[last.downloadId].order_id].payment_status = "failed"
  /\ downloads[last.downloadId].download_count > 0

\* what an update of an order leaves alone: the coupons, the order items, the
\* set of orders and every field of every order but the ones named
OrdersKeptBut(id, fields) ==
  /\ coupons' = coupons
  /\ orderItems' = orderItems
  /\ DOMAIN orders' = DOMAIN orders
  /\ \A o \in DOMAIN orders :
       \A f \in DOMAIN orders[o] :
         (o # id \/ f \notin fields) => orders'[o][f] = orders[o][f]

\* C28: updateOrderStatus changes only the status and updated_at of the order
\* it is given, updatePaymentStatus only its payment_status and updated_at;
\* the order's user, amounts, coupon_id and other status field, every order
\* item, every other order and every coupon's current_uses stay as they were
\* (a cancellation or a refund gives no coupon use back), through the lookup
\* before the write and the provisioning the update may run as well.
C28_UpdatesTouchOneField ==
  [][ /\ \A id \in 1..MaxTargetId, s \in OrderStatuses :
           UpdateOrderStatusSelect(1, id, s) => OrdersKeptBut(0, {})
      /\ \A id \in 1..MaxTargetId, s \in PaymentStatuses :
           UpdatePaymentStatusSelect(1, id, s) => OrdersKeptBut(0, {})
      /\ UpdateOrderStatusUpdate(1) =>
           /\ OrdersKeptBut(call[1].id, {"status", "updated_at"})
           /\ orders'[call[1].id].status = call[1].status
           /\ orders'[call[1].id].updated_at >= orders[call[1].id].updated_at
      /\ UpdatePaymentStatusUpdate(1) =>
           /\ OrdersKeptBut(call[1].id, {"payment_status", "updated_at"})
           /\ orders'[call[1].id].payment_status = call[1].paymentStatus
           /\ orders'[call[1].id].updated_at >= orders[call[1].id].updated_at
      /\ (DownloadRecordsSelect(1) \/ DownloadRecordsCheck(1) \/ DownloadRecordsInsert(1))
           => OrdersKeptBut(0, {}) ]_vars
\* an order that redeemed a coupon has just been refunded, later than it was
\* placed, beside a second order; the coupon still counts its use
C28_Witness ==
  /\ last.op = "updateOrderStatus" /\ last.kind = "ok" /\ last.status = "refunded"
  /\ Len(orders) = 2
  /\ orders[last.id].coupon_id # None
  /\ coupons[Val(orders[last.id].coupon_id)].current_uses > 0
  /\ orders[last.id].updated_at > 0
  /\ orders[last.id].payment_status = "completed"

\* C29: a validateDownloadToken call that returns valid = true leaves the token
\* store and the grant's download_count as they were; a token leaves the store
\* only through a call that rejects it, so a token that has been accepted is
\* accepted again, any number of times, while it is inside its 15 minutes and
\* its grant validates.
C29_AcceptedTokenStays ==
  [][ /\ (ValidateDownloadTokenSelect(1) /\ last'.valid)
           => (tokenStore' = tokenStore /\ downloads' = downloads)
      /\ \A t \in DOMAIN tokenIssued :
           ( /\ ValidateDownloadTokenBegin(1, t)
             /\ tokenIssued[t].accepted
             /\ now <= tokenIssued[t].at + TokenMinutes
             /\ GrantUsable(tokenIssued[t].downloadId, tokenIssued[t].userId) )
           => pc'[1] = "vt_select"
      /\ ( /\ ValidateDownloadTokenSelect(1)
           /\ GrantUsable(tokenIssued[call[1].token].downloadId,
                          tokenIssued[call[1].token].userId) )
           => last'.valid
      /\ \A t \in DOMAIN tokenStore :
           (tokenStore[t] # None /\ tokenStore'[t] = None) =>
             /\ last'.op = "validateDownloadToken" /\ last'.token = t /\ ~last'.valid
             /\ pc'[1] = "idle" ]_vars
\* a token issued earlier has just been accepted for the second time and is
\* still stored, for a grant that has been downloaded from, while another
\* token was rejected
C29_Witness ==
  /\ last.op = "validateDownloadToken" /\ last.valid
  /\ tokenStore[last.token] # None
  /\ now > tokenIssued[last.token].at
  /\ downloads[last.downloadId].download_count > 0
  /\ \E t \in DOMAIN tokenStore : tokenStore[t] = None

\* C30: with createOrder the only operation that touches coupons, called one
\* at a time or concurrently, with or without store failures between its
\* writes, whenever no createOrder is running every coupon's current_uses
\* equals the number of persisted orders whose coupon_id references it.
C30_UsesMatchOrders ==
  (\A p \in Procs : pc[p] = "idle") =>
    \A c \in DOMAIN coupons :
      coupons[c].current_uses
        = Cardinality({ o \in DOMAIN orders : orders[o].coupon_id = Some(c) })
====
